---- MODULE Spec2Model ----
(***************************************************************************)
(* A model of remarkup (src/README.md lines 69-463 hold the current        *)
(* index.js; src/unnamed/part_002 is the previous revision of it).         *)
(*                                                                         *)
(* Fragments are modelled in parsed form: a document is the sequence of    *)
(* its nodes in document order, every node naming its parent (0 is the     *)
(* root cheerio creates).  Attribute names are sequences of tokens         *)
(* ("translate", "-", "id"), attribute values and text are sequences of    *)
(* characters.  Costs are fixed-point numbers in thousandths.              *)
(***************************************************************************)
EXTENDS Integers, Sequences, FiniteSets, TLC

VARIABLES
    other,                     \* a second instance and its reMarkup call, while the
                               \* steps of the call below are being taken
    opt,                       \* the options the instance was constructed with
    elementFilters,            \* this.elementFilters
    nonexistentChildDistance,  \* this.nonexistentChildDistance (thousandths)
    pc,                        \* position of the client / of the running call
    original,                  \* first argument of the running call
    modified,                  \* second argument of reMarkup
    origDoc,                   \* parsed original
    modDoc,                    \* parsed modified, written by the copy loop
    distanceMatrix,            \* the writes distanceMatrix[e1i][e2i] = cost, in order
    indices,                   \* result of the global m.compute(distanceMatrix)
    k,                         \* copy loop counter k
    copied,                    \* history: pairs copyAttributes has run for
    args,                      \* arguments of a direct call of the element metric
    ret                        \* return value of the last call

vars == <<other, opt, elementFilters, nonexistentChildDistance, pc, original, modified,
          origDoc, modDoc, distanceMatrix, indices, k, copied, args, ret>>

(***************************************************************************)
(* Generic helpers                                                         *)
(***************************************************************************)
\* mutant: the sign is kept
Abs_Signed(x) == x

Abs(x) == IF x < 0 THEN -x ELSE x

Min2(a, b) == IF a <= b THEN a ELSE b

Range(s) == {s[i] : i \in 1..Len(s)}

RECURSIVE SumSeq(_)
SumSeq(s) == IF s = <<>> THEN 0 ELSE Head(s) + SumSeq(Tail(s))

\* All sequences of length n of pairwise distinct members of S.
RECURSIVE Injections(_, _)
Injections(n, S) ==
    IF n = 0 THEN {<<>>}
    ELSE UNION {{<<x>> \o t : t \in Injections(n - 1, S \ {x})} : x \in S}

(***************************************************************************)
(* Strings                                                                 *)
(***************************************************************************)
Str_id == <<"id">>
Str_translate_id == <<"translate", "-", "id">>
Str_remarkup_id == <<"remarkup", "-", "id">>
Str_translate_role == <<"translate", "-", "role">>
Str_translate_ == <<"translate", "-">>
Str_xtranslate_id == <<"xtranslate", "-", "id">>
Str_class == <<"class">>
Str_type == <<"type">>
Str_value == <<"value">>
Str_alt == <<"alt">>
Str_label == <<"label">>
Str_placeholder == <<"placeholder">>
Str_title == <<"title">>
Str_tooltip == <<"tooltip">>
Str_data_info == <<"data", "-", "info">>
Str_popover == <<"popover">>

Val_button == <<"b", "u", "t", "t", "o", "n">>
Val_submit == <<"s", "u", "b", "m", "i", "t">>
Val_text == <<"t", "e", "x", "t">>

(***************************************************************************)
(* Documents                                                               *)
(***************************************************************************)
Attr(n, v) == [name |-> n, value |-> v]

El(tag, parent, attribs) ==
    [type |-> "tag", parent |-> parent, name |-> tag, attribs |-> attribs, data |-> <<>>]

Txt(parent, data) ==
    [type |-> "text", parent |-> parent, name |-> "#text", attribs |-> <<>>, data |-> data]

\* Object.keys(element.attr() || {})
AttrNames(attribs) == [i \in 1..Len(attribs) |-> attribs[i].name]

HasAttr(attribs, n) == \E i \in 1..Len(attribs) : attribs[i].name = n

\* element.attr(n); only used where HasAttr holds
GetAttr(attribs, n) ==
    attribs[CHOOSE i \in 1..Len(attribs) : attribs[i].name = n].value

\* element.removeAttr(n)
RemoveAttr(attribs, n) == SelectSeq(attribs, LAMBDA a : a.name # n)

\* mutant: an attribute dst already has is left as it is
SetAttr_KeepExisting(attribs, n, v) ==
    IF HasAttr(attribs, n) THEN attribs ELSE Append(attribs, Attr(n, v))

\* dst.attribs[n] = v : overwrite in place, or append a new key
SetAttr(attribs, n, v) ==
    IF HasAttr(attribs, n)
    THEN [i \in 1..Len(attribs) |->
            IF attribs[i].name = n THEN Attr(n, v) ELSE attribs[i]]
    ELSE Append(attribs, Attr(n, v))

\* doc.find('*') : the indices of the element nodes, in document order
RECURSIVE ElementsFrom(_, _)
ElementsFrom(doc, i) ==
    IF i > Len(doc) THEN <<>>
    ELSE (IF doc[i].type = "tag" THEN <<i>> ELSE <<>>) \o ElementsFrom(doc, i + 1)

Elements(doc) == ElementsFrom(doc, 1)

\* node.children : all child nodes of node p (0: the root), in order
RECURSIVE ChildNodesFrom(_, _, _)
ChildNodesFrom(doc, p, i) ==
    IF i > Len(doc) THEN <<>>
    ELSE (IF doc[i].parent = p THEN <<i>> ELSE <<>>) \o ChildNodesFrom(doc, p, i + 1)

ChildNodes(doc, p) == ChildNodesFrom(doc, p, 1)

\* mutant: all child nodes, text nodes included
Children_AllNodes(doc, p) == ChildNodes(doc, p)

\* $(node).children() : the element children only
Children(doc, p) == SelectSeq(ChildNodes(doc, p), LAMBDA i : doc[i].type = "tag")

\* i is p or lies below p
RECURSIVE IsWithin(_, _, _)
IsWithin(doc, i, p) ==
    IF i = p THEN TRUE
    ELSE IF i = 0 THEN FALSE
    ELSE IsWithin(doc, doc[i].parent, p)

\* element.clone() / $(e1).clone() : the subtree below node i as a detached document
CloneNode(doc, i) ==
    LET idx == SelectSeq([j \in 1..Len(doc) |-> j], LAMBDA j : IsWithin(doc, j, i))
    IN  [n \in 1..Len(idx) |->
            [doc[idx[n]] EXCEPT !.parent = IF idx[n] = i THEN 0 ELSE @ - (i - 1)]]

(***************************************************************************)
(* Configuration: semantic attributes and element filters                  *)
(***************************************************************************)
PString(s) == [kind |-> "string", s |-> s]
PRegExp == [kind |-> "regexp", s |-> <<>>]
PFunction == [kind |-> "function", s |-> <<>>]

\* ReMarkup#semanticAttributes
semanticAttributes ==
    << PString(Str_alt), PString(Str_label), PString(Str_placeholder),
       PString(Str_title), PString(Str_tooltip), PString(Str_data_info),
       PString(Str_popover), PFunction >>

\* the arrow function that is the last member of semanticAttributes()
ValueOfButton(name, element) ==
    /\ name = Str_value
    /\ HasAttr(element.attribs, Str_type)
    /\ GetAttr(element.attribs, Str_type) \in {Val_button, Val_submit}

\* mutant: the pattern without its non-empty suffix, /^(remarkup|translate)-/
RegExpTest_NoSuffix(name) ==
    /\ Len(name) >= 2
    /\ name[1] \in {"remarkup", "translate"}
    /\ name[2] = "-"

\* /^(remarkup|translate)-.+$/.test(name)
RegExpTest(name) ==
    /\ Len(name) >= 3
    /\ name[1] \in {"remarkup", "translate"}
    /\ name[2] = "-"

\* list.indexOf(name) !== -1 for a string name: strict equality, so only a
\* string member of the list can be found
IndexOfName(list, name) ==
    \E j \in 1..Len(list) : list[j].kind = "string" /\ list[j].s = name

\* the preserveAttributes the constructor passes to defaultElementFilter
DefaultPreserve == <<PString(Str_id), PRegExp>> \o semanticAttributes

\* mutant: the predicate is handed the element being filtered, not its clone
ShouldBePreserved_Current(preserveAttributes, attrName, originalElement, element) ==
    \E j \in 1..Len(preserveAttributes) :
        \/ /\ preserveAttributes[j].kind = "function"
           /\ ValueOfButton(attrName, element)
        \/ /\ preserveAttributes[j].kind = "regexp"
           /\ RegExpTest(attrName)
        \/ /\ preserveAttributes[j].kind = "string"
           /\ attrName = preserveAttributes[j].s

\* the test in the inner loop of the filter defaultElementFilter returns
ShouldBePreserved(preserveAttributes, attrName, originalElement, element) ==
    \E j \in 1..Len(preserveAttributes) :
        \/ /\ preserveAttributes[j].kind = "function"
           /\ ValueOfButton(attrName, originalElement)
        \/ /\ preserveAttributes[j].kind = "regexp"
           /\ RegExpTest(attrName)
        \/ /\ preserveAttributes[j].kind = "string"
           /\ attrName = preserveAttributes[j].s

\* the forEach of the filter: names is the snapshot Object.keys took
RECURSIVE FilterAttrs(_, _, _, _)
FilterAttrs(preserveAttributes, names, originalElement, element) ==
    IF names = <<>> THEN element
    ELSE FilterAttrs(preserveAttributes, Tail(names), originalElement,
            IF ShouldBePreserved(preserveAttributes, Head(names), originalElement, element)
            THEN element
            ELSE [element EXCEPT !.attribs = RemoveAttr(@, Head(names))])

\* ReMarkup.defaultElementFilter(preserveAttributes)(element)
defaultElementFilter(preserveAttributes, element) ==
    FilterAttrs(preserveAttributes, AttrNames(element.attribs), element, element)

FDefault(preserveAttributes) ==
    [kind |-> "defaultElementFilter", preserve |-> preserveAttributes]

\* the class [\t\n\r ] of stripSpaces; text is a sequence of characters
IsSpace(c) == c \in {"\t", "\n", "\r", " "}

\* data.replace(/^[\t\n\r ]+/g, '')
RECURSIVE DropLeading(_)
DropLeading(s) ==
    IF s # <<>> /\ IsSpace(Head(s)) THEN DropLeading(Tail(s)) ELSE s

\* data.replace(/[\t\n\r ]+$/g, '')
RECURSIVE DropTrailing(_)
DropTrailing(s) ==
    IF s # <<>> /\ IsSpace(s[Len(s)]) THEN DropTrailing(SubSeq(s, 1, Len(s) - 1)) ELSE s

\* mutant: every whitespace character becomes a space, runs are kept
CollapseSpaces_EachOne(s) ==
    [i \in 1..Len(s) |-> IF IsSpace(s[i]) THEN " " ELSE s[i]]

\* data.replace(/[\t\n\r ]+/g, ' ')
RECURSIVE CollapseSpaces(_)
CollapseSpaces(s) ==
    IF s = <<>> THEN <<>>
    ELSE IF IsSpace(Head(s)) THEN <<" ">> \o CollapseSpaces(DropLeading(Tail(s)))
    ELSE <<Head(s)>> \o CollapseSpaces(Tail(s))

\* the body of the loop of stripSpaces for child i (from 0) of n child nodes
StripNode(node, i, n) ==
    IF node.type # "text" THEN node
    ELSE LET d1 == CollapseSpaces(node.data)
             d2 == IF i = 0 THEN DropLeading(d1) ELSE d1
             d3 == IF i = n - 1 THEN DropTrailing(d2) ELSE d2
         IN  [node EXCEPT !.data = d3]

\* ReMarkup.stripSpaces on node p of doc (p = 0: the root)
stripSpaces(doc, p) ==
    LET children == ChildNodes(doc, p)
    IN  [m \in 1..Len(doc) |->
            IF \E i \in 1..Len(children) : children[i] = m
            THEN StripNode(doc[m],
                           (CHOOSE i \in 1..Len(children) : children[i] = m) - 1,
                           Len(children))
            ELSE doc[m]]

FStripSpaces == [kind |-> "stripSpaces", preserve |-> <<>>]

\* mutant: the filtered clone, which is detached, is put in the node's place
ApplyFilter_Detached(f, doc, p) ==
    IF f.kind = "defaultElementFilter" /\ p # 0
    THEN [doc EXCEPT ![p] = defaultElementFilter(f.preserve, CloneNode(doc, p)[1])]
    ELSE doc

\* one filter applied to node p of doc (p = 0 is the root, which has no attributes)
ApplyFilter(f, doc, p) ==
    IF f.kind = "defaultElementFilter" /\ p # 0
    THEN [doc EXCEPT ![p] = defaultElementFilter(f.preserve, @)]
    ELSE IF f.kind = "stripSpaces"
    THEN stripSpaces(doc, p)
    ELSE doc

\* ReMarkup#applyElementFilters
RECURSIVE applyElementFilters(_, _, _)
applyElementFilters(filters, doc, p) ==
    IF filters = <<>> THEN doc
    ELSE applyElementFilters(Tail(filters), ApplyFilter(Head(filters), doc, p), p)

\* ReMarkup#unMarkupRecurse
RECURSIVE unMarkupRecurse(_, _, _)
RECURSIVE unMarkupEach(_, _, _)
unMarkupRecurse(filters, doc, p) ==
    unMarkupEach(filters, applyElementFilters(filters, doc, p), Children(doc, p))

unMarkupEach(filters, doc, cs) ==
    IF cs = <<>> THEN doc
    ELSE unMarkupEach(filters, unMarkupRecurse(filters, doc, Head(cs)), Tail(cs))

\* ReMarkup#unMarkup, on the parsed fragment
unMarkup(filters, doc) == unMarkupRecurse(filters, doc, 0)

(***************************************************************************)
(* Arithmetic of the metric: thousandths                                   *)
(***************************************************************************)
\* round(1000 * Math.log(n)) for n = 1..16
LogTable ==
    << 0, 693, 1099, 1386, 1609, 1792, 1946, 2079, 2197, 2303, 2398, 2485,
       2565, 2639, 2708, 2773 >>

\* the magnitude that stands for Infinity among the thousandths
Infinity == 1000000000

\* Math.log(n) for an integer n >= 0; Math.log(0) is -Infinity
Log(n) == IF n = 0 THEN -Infinity ELSE LogTable[n]

\* one row of the edit distance table: prev is the row of the prefix before ca
RECURSIVE LevRow(_, _, _, _)
LevRow(prev, ca, b, acc) ==
    IF Len(acc) = Len(prev) THEN acc
    ELSE LET j == Len(acc)
             sub == prev[j] + (IF b[j] = ca THEN 0 ELSE 1)
         IN  LevRow(prev, ca, b,
                    Append(acc, Min2(Min2(prev[j + 1] + 1, acc[j] + 1), sub)))

RECURSIVE LevRows(_, _, _)
LevRows(prev, a, b) ==
    IF a = <<>> THEN prev
    ELSE LevRows(LevRow(prev, Head(a), b, <<prev[1] + 1>>), Tail(a), b)

\* levenshtein.get(a, b)
Levenshtein(a, b) ==
    LevRows([j \in 1..(Len(b) + 1) |-> j - 1], a, b)[Len(b) + 1]

(***************************************************************************)
(* The element metric                                                      *)
(***************************************************************************)
identAttr == <<Str_id, Str_translate_id, Str_remarkup_id>>

\* mutant: only id is looked at
SharesIdent_IdOnly(e1, e2) ==
    /\ HasAttr(e1.attribs, Str_id)
    /\ HasAttr(e2.attribs, Str_id)
    /\ GetAttr(e1.attribs, Str_id) = GetAttr(e2.attribs, Str_id)

\* the first loop of defaultRawElementMetric
SharesIdent(e1, e2) ==
    \E i \in 1..Len(identAttr) :
        /\ HasAttr(e1.attribs, identAttr[i])
        /\ HasAttr(e2.attribs, identAttr[i])
        /\ GetAttr(e1.attribs, identAttr[i]) = GetAttr(e2.attribs, identAttr[i])

\* the loop over e1attribs
RECURSIVE OnlyInFirst(_, _, _)
OnlyInFirst(names, e2, semantic) ==
    IF names = <<>> THEN 0
    ELSE (IF ~HasAttr(e2.attribs, Head(names)) /\ ~IndexOfName(semantic, Head(names))
          THEN 1000 ELSE 0)
         + OnlyInFirst(Tail(names), e2, semantic)

\* mutant: the edit distance is charged without the logarithm
RECURSIVE SecondLoop_NoLog(_, _, _, _)
SecondLoop_NoLog(names, e1, e2, semantic) ==
    IF names = <<>> THEN 0
    ELSE (IF IndexOfName(semantic, Head(names)) THEN 0
          ELSE IF ~HasAttr(e1.attribs, Head(names)) THEN 1000
          ELSE IF GetAttr(e1.attribs, Head(names)) # GetAttr(e2.attribs, Head(names))
               THEN 2 * 1000 * Levenshtein(GetAttr(e1.attribs, Head(names)),
                                           GetAttr(e2.attribs, Head(names)))
               ELSE 0)
         + SecondLoop_NoLog(Tail(names), e1, e2, semantic)

\* the loop over e2attribs
RECURSIVE SecondLoop(_, _, _, _)
SecondLoop(names, e1, e2, semantic) ==
    IF names = <<>> THEN 0
    ELSE (IF IndexOfName(semantic, Head(names)) THEN 0
          ELSE IF ~HasAttr(e1.attribs, Head(names)) THEN 1000
          ELSE IF GetAttr(e1.attribs, Head(names)) # GetAttr(e2.attribs, Head(names))
               THEN 2 * Log(Levenshtein(GetAttr(e1.attribs, Head(names)),
                                        GetAttr(e2.attribs, Head(names))))
               ELSE 0)
         + SecondLoop(Tail(names), e1, e2, semantic)

\* mutant: the position term is added without the test positionDistance > 0
defaultRawElementMetric_NoGuard(e1, e2, e1i, e2i, e1pl, e2pl) ==
    IF SharesIdent(e1, e2) THEN 0
    ELSE 5000
         + (IF e1.name # e2.name THEN 3000 ELSE 0)
         + OnlyInFirst(AttrNames(e1.attribs), e2, semanticAttributes)
         + SecondLoop(AttrNames(e2.attribs), e1, e2, semanticAttributes)
         + 2 * Log(Abs(e1i - e2i)) + 1000

\* mutant: the position term without its + 1
defaultRawElementMetric_NoOffset(e1, e2, e1i, e2i, e1pl, e2pl) ==
    IF SharesIdent(e1, e2) THEN 0
    ELSE 5000
         + (IF e1.name # e2.name THEN 3000 ELSE 0)
         + OnlyInFirst(AttrNames(e1.attribs), e2, semanticAttributes)
         + SecondLoop(AttrNames(e2.attribs), e1, e2, semanticAttributes)
         + (IF Abs(e1i - e2i) > 0 THEN 2 * Log(Abs(e1i - e2i)) ELSE 0)

\* mutant: different tag names cost nothing
defaultRawElementMetric_NoTag(e1, e2, e1i, e2i, e1pl, e2pl) ==
    IF SharesIdent(e1, e2) THEN 0
    ELSE 5000
         + OnlyInFirst(AttrNames(e1.attribs), e2, semanticAttributes)
         + SecondLoop(AttrNames(e2.attribs), e1, e2, semanticAttributes)
         + (IF Abs(e1i - e2i) > 0 THEN 2 * Log(Abs(e1i - e2i)) + 1000 ELSE 0)

\* ReMarkup.defaultRawElementMetric, called as this.rawElementMetric(...)
defaultRawElementMetric(e1, e2, e1i, e2i, e1pl, e2pl) ==
    IF SharesIdent(e1, e2) THEN 0
    ELSE 5000
         + (IF e1.name # e2.name THEN 3000 ELSE 0)
         + OnlyInFirst(AttrNames(e1.attribs), e2, semanticAttributes)
         + SecondLoop(AttrNames(e2.attribs), e1, e2, semanticAttributes)
         + (IF Abs(e1i - e2i) > 0 THEN 2 * Log(Abs(e1i - e2i)) + 1000 ELSE 0)

(***************************************************************************)
(* The assignment solver (munkres-js), by its contract                     *)
(***************************************************************************)
RECURSIVE PairsInRowOrder(_)
PairsInRowOrder(S) ==
    IF S = {} THEN <<>>
    ELSE LET m == CHOOSE x \in S : \A y \in S : x[1] <= y[1]
         IN  <<m>> \o PairsInRowOrder(S \ {m})

\* every one-to-one pairing of all the rows or all the columns, whichever are
\* fewer, as [row, col] pairs (0-based) in row order
Assignments(rows, cols) ==
    IF rows <= cols
    THEN {[i \in 1..rows |-> <<i - 1, p[i] - 1>>] : p \in Injections(rows, 1..cols)}
    ELSE {PairsInRowOrder({<<q[j] - 1, j - 1>> : j \in 1..cols}) :
            q \in Injections(cols, 1..rows)}

AssignmentCost(matrix, a) ==
    SumSeq([n \in 1..Len(a) |-> matrix[a[n][1] + 1][a[n][2] + 1]])

MinOf(S) == CHOOSE v \in S : \A w \in S : v <= w

Transpose(matrix) ==
    [j \in 1..Len(matrix[1]) |-> [i \in 1..Len(matrix) |-> matrix[i][j]]]

\* tables of partial optima, for a matrix with no more rows than columns:
\* the entry <<U, c>> of table i says that rows i.. are paired at least cost
\* c with columns outside U, for every set U of i - 1 columns
TableGet(table, U) == (CHOOSE p \in table : p[1] = U)[2]

RECURSIVE SuffixTables(_, _)
SuffixTables(matrix, i) ==
    LET cols == 1..Len(matrix[1])
    IN  IF i > Len(matrix)
        THEN << {<<U, 0>> : U \in {V \in SUBSET cols : Cardinality(V) = Len(matrix)}} >>
        ELSE LET rest == SuffixTables(matrix, i + 1)
             IN  << { <<U, MinOf({matrix[i][c] + TableGet(rest[1], U \cup {c}) :
                                    c \in cols \ U})>> :
                        U \in {V \in SUBSET cols : Cardinality(V) = i - 1} } >>
                 \o rest

\* the sequences p of columns, one for every row, of least total cost
RECURSIVE OptimalFrom(_, _, _, _, _)
OptimalFrom(matrix, tables, i, U, p) ==
    IF i > Len(matrix) THEN {p}
    ELSE UNION { OptimalFrom(matrix, tables, i + 1, U \cup {c}, Append(p, c)) :
                 c \in {d \in (1..Len(matrix[1])) \ U :
                          matrix[i][d] + TableGet(tables[i + 1], U \cup {d})
                            = TableGet(tables[i], U)} }

WideCost(matrix) == TableGet(SuffixTables(matrix, 1)[1], {})

WideOptimal(matrix) == OptimalFrom(matrix, SuffixTables(matrix, 1), 1, {}, <<>>)

\* mutant: the pairs (0, 0), (1, 1), ... are taken without looking at the costs
MunkresCost_Diagonal(matrix) ==
    SumSeq([n \in 1..Min2(Len(matrix), Len(matrix[1])) |-> matrix[n][n]])

\* the total cost of the result of m.compute(matrix): the least total cost of
\* a one-to-one pairing of all the rows or all the columns, whichever are fewer
MunkresCost(matrix) ==
    IF Len(matrix) <= Len(matrix[1]) THEN WideCost(matrix)
    ELSE WideCost(Transpose(matrix))

\* mutant: every row takes a cheapest column of its own
Munkres_RowMin(matrix) ==
    { [i \in 1..Len(matrix) |-> <<i - 1, f[i] - 1>>] :
        f \in { g \in [1..Len(matrix) -> 1..Len(matrix[1])] :
                  \A i \in 1..Len(matrix), d \in 1..Len(matrix[1]) :
                      matrix[i][g[i]] <= matrix[i][d] } }

\* m.compute(matrix): any pairing of least total cost, as [row, col] pairs
\* (0-based) in row order
Munkres(matrix) ==
    IF Len(matrix) <= Len(matrix[1])
    THEN {[i \in 1..Len(p) |-> <<i - 1, p[i] - 1>>] : p \in WideOptimal(matrix)}
    ELSE {PairsInRowOrder({<<q[j] - 1, j - 1>> : j \in 1..Len(q)}) :
            q \in WideOptimal(Transpose(matrix))}

(***************************************************************************)
(* reMarkup                                                                *)
(***************************************************************************)
\* array.indexOf(x), 0-based, -1 when absent
IndexOf(list, x) ==
    IF \E i \in 1..Len(list) : list[i] = x
    THEN (CHOOSE i \in 1..Len(list) : list[i] = x) - 1
    ELSE -1

\* mutant: nothing is ignored, every attribute of src is copied
RECURSIVE copyAttributes_All(_, _, _)
copyAttributes_All(src, dst, ignored) ==
    IF src = <<>> THEN dst
    ELSE copyAttributes_All(Tail(src),
            SetAttr(dst, Head(src).name, Head(src).value), ignored)

\* copyAttributes(src, dst, ignored), on the attribute lists
RECURSIVE copyAttributes(_, _, _)
copyAttributes(src, dst, ignored) ==
    IF src = <<>> THEN dst
    ELSE copyAttributes(Tail(src),
            IF ~IndexOfName(ignored, Head(src).name)
            THEN SetAttr(dst, Head(src).name, Head(src).value)
            ELSE dst,
            ignored)

\* the distance matrix is kept as the sequence of the assignments
\* distanceMatrix[e1i][e2i] = distance made so far
\* mutant: the memo check never finds a value
Known_Never(D, e1i, e2i) == FALSE

\* typeof distanceMatrix[e1i][e2i] != 'undefined'
Known(D, e1i, e2i) ==
    \E n \in 1..Len(D) : D[n].e1i = e1i /\ D[n].e2i = e2i

\* distanceMatrix[e1i][e2i], read: the value assigned last
Cell(D, e1i, e2i) ==
    LET w == {n \in 1..Len(D) : D[n].e1i = e1i /\ D[n].e2i = e2i}
    IN  D[CHOOSE n \in w : \A x \in w : x <= n].distance

\* distanceMatrix[e1i][e2i] = distance; depth is the number of
\* computeElementDistance calls that are running when the assignment is made
Store(D, e1i, e2i, distance, depth) ==
    Append(D, [e1i |-> e1i, e2i |-> e2i, distance |-> distance, depth |-> depth])

\* assert.notStrictEqual(e1i, -1) or assert.notStrictEqual(e2i, -1) has thrown:
\* the failed call is kept as an entry with the index -1
Threw(D) == \E n \in 1..Len(D) : D[n].e1i = -1 \/ D[n].e2i = -1

\* computeElementDistance(e1, e2): the distance matrix after the call.
\* D is the matrix before the call.
\* depth counts this call and the calls it is nested in.
RECURSIVE computeElementDistance(_, _, _, _, _, _, _, _)
RECURSIVE ChildRow(_, _, _, _, _, _, _, _, _)
RECURSIVE ChildLoops(_, _, _, _, _, _, _, _, _)
computeElementDistance(filters, ncd, oDoc, mDoc, D, e1, e2, depth) ==
    LET e1i == IndexOf(Elements(oDoc), e1)
        e2i == IndexOf(Elements(mDoc), e2)
    IN  IF e1i = -1 \/ e2i = -1 THEN Store(D, e1i, e2i, 0, depth)
        ELSE IF Known(D, e1i, e2i) THEN D
        ELSE
        LET e1children == Children(oDoc, e1)
            e2children == Children(mDoc, e2)
            both == Len(e1children) > 0 /\ Len(e2children) > 0
            D1 == IF both
                  THEN ChildLoops(filters, ncd, oDoc, mDoc, D, e1children, e2children,
                                  1, depth)
                  ELSE D
            childMatrix ==
                [i \in 1..Len(e1children) |-> [j \in 1..Len(e2children) |->
                    Cell(D1, IndexOf(Elements(oDoc), e1children[i]),
                             IndexOf(Elements(mDoc), e2children[j]))]]
            totalChildDistance ==
                (IF both THEN MunkresCost(childMatrix) ELSE 0)
                + Abs(Len(e1children) - Len(e2children)) * ncd
            e1_ == unMarkupRecurse(filters, CloneNode(oDoc, e1), 1)[1]
            rawElementDistance ==
                defaultRawElementMetric(e1_, mDoc[e2], e1i, e2i,
                    Len(Children(oDoc, oDoc[e1].parent)),
                    Len(Children(mDoc, mDoc[e2].parent)))
        IN  IF Threw(D1) THEN D1
            ELSE Store(D1, e1i, e2i, totalChildDistance + rawElementDistance, depth)

\* the inner loop over e2children, for the child c1 of e1, in a call at depth
ChildRow(filters, ncd, oDoc, mDoc, D, c1, c2, j, depth) ==
    IF j > Len(c2) THEN D
    ELSE LET D2 == computeElementDistance(filters, ncd, oDoc, mDoc, D, c1, c2[j],
                                          depth + 1)
         IN  \* the call has returned before the next one starts
             IF Len(D2) > 0 /\ ~Threw(D2)
             THEN ChildRow(filters, ncd, oDoc, mDoc, D2, c1, c2, j + 1, depth)
             ELSE D2

\* the outer loop over e1children
ChildLoops(filters, ncd, oDoc, mDoc, D, c1, c2, i, depth) ==
    IF i > Len(c1) \/ Threw(D) THEN D
    ELSE ChildLoops(filters, ncd, oDoc, mDoc,
            ChildRow(filters, ncd, oDoc, mDoc, D, c1[i], c2, 1, depth),
            c1, c2, i + 1, depth)

\* the inner top-level loop over modElements, for origElements[i]
RECURSIVE TopRow(_, _, _, _, _, _, _)
TopRow(filters, ncd, oDoc, mDoc, D, i, j) ==
    IF j > Len(Elements(mDoc)) THEN D
    ELSE LET D2 == computeElementDistance(filters, ncd, oDoc, mDoc, D,
                                          Elements(oDoc)[i], Elements(mDoc)[j], 1)
         IN  IF Len(D2) > 0 /\ ~Threw(D2)
             THEN TopRow(filters, ncd, oDoc, mDoc, D2, i, j + 1)
             ELSE D2

\* the outer top-level loop over origElements
RECURSIVE TopLoops(_, _, _, _, _, _)
TopLoops(filters, ncd, oDoc, mDoc, D, i) ==
    IF i > Len(Elements(oDoc)) \/ Threw(D) THEN D
    ELSE TopLoops(filters, ncd, oDoc, mDoc,
            TopRow(filters, ncd, oDoc, mDoc, D, i, 1), i + 1)

\* distanceMatrix as the array of rows handed to the solver
MatrixRows(D, rows, cols) ==
    [i \in 1..rows |-> [j \in 1..cols |-> Cell(D, i - 1, j - 1)]]

(***************************************************************************)
(* The instance and its calls                                              *)
(***************************************************************************)
NoRet == [op |-> "none", kind |-> "none", doc |-> <<>>]

\* an option that is not supplied, and one that is
Undefined == <<>>
Supplied(v) == <<v>>

\* opt = opt || {}
NoOptions ==
    [elementFilters |-> Undefined, additionalElementFilters |-> Undefined,
     nonexistentChildDistance |-> Undefined]

\* JavaScript's a || b for an option a that is an array or a function: these
\* are truthy, so b is taken only when a is undefined
OrElse(a, b) == IF a = Undefined THEN b ELSE a[1]

\* a || b for an option a that is a number: 0 is falsy as well
NumberOrElse(a, b) == IF a = Undefined \/ a[1] = 0 THEN b ELSE a[1]

\* the fields the constructor sets from its options
Constructed(o) ==
    [elementFilters |->
        OrElse(o.elementFilters,
               <<FDefault(DefaultPreserve)>> \o OrElse(o.additionalElementFilters, <<>>)),
     nonexistentChildDistance |-> NumberOrElse(o.nonexistentChildDistance, 10 * 1000)]

\* an instance constructed with options o and no call running on it
Instance(o) ==
    [opt |-> o,
     elementFilters |-> Constructed(o).elementFilters,
     nonexistentChildDistance |-> Constructed(o).nonexistentChildDistance,
     pc |-> "idle", original |-> <<>>, modified |-> <<>>, origDoc |-> <<>>,
     modDoc |-> <<>>, distanceMatrix |-> <<>>, indices |-> <<>>, k |-> 0,
     copied |-> <<>>, args |-> <<>>, ret |-> NoRet]

\* new ReMarkup() with no options
Init ==
    /\ other = Instance(NoOptions)
    /\ opt = NoOptions
    /\ elementFilters = <<FDefault(DefaultPreserve)>>
    /\ nonexistentChildDistance = 10 * 1000
    /\ pc = "idle"
    /\ original = <<>>
    /\ modified = <<>>
    /\ origDoc = <<>>
    /\ modDoc = <<>>
    /\ distanceMatrix = <<>>
    /\ indices = <<>>
    /\ k = 0
    /\ copied = <<>>
    /\ args = <<>>
    /\ ret = NoRet

\* new ReMarkup(o)
InitWith(o) ==
    /\ opt = o
    /\ elementFilters = Constructed(o).elementFilters
    /\ nonexistentChildDistance = Constructed(o).nonexistentChildDistance
    /\ pc = "idle"
    /\ original = <<>>
    /\ modified = <<>>
    /\ origDoc = <<>>
    /\ modDoc = <<>>
    /\ distanceMatrix = <<>>
    /\ indices = <<>>
    /\ k = 0
    /\ copied = <<>>
    /\ args = <<>>
    /\ ret = NoRet

\* rm.unMarkup(X)
UnMarkupCall(X) ==
    /\ pc = "idle"
    /\ original' = X
    /\ ret' = [op |-> "unMarkup", kind |-> "html", doc |-> unMarkup(elementFilters, X)]
    /\ pc' = "returned"
    /\ UNCHANGED <<other, opt, elementFilters, nonexistentChildDistance, modified, origDoc,
                   modDoc, distanceMatrix, indices, k, copied, args>>

\* the caller drops the result; the locals of the call are gone
Return ==
    /\ pc = "returned"
    /\ pc' = "idle"
    /\ original' = <<>>
    /\ modified' = <<>>
    /\ origDoc' = <<>>
    /\ modDoc' = <<>>
    /\ distanceMatrix' = <<>>
    /\ indices' = <<>>
    /\ k' = 0
    /\ copied' = <<>>
    /\ args' = <<>>
    /\ ret' = NoRet
    /\ UNCHANGED <<other, opt, elementFilters, nonexistentChildDistance>>

\* mutant: the early return is taken only when both sides have no element
ReMarkupBegin_BothEmpty(o, m) ==
    /\ original' = o
    /\ modified' = m
    /\ origDoc' = o
    /\ modDoc' = m
    /\ distanceMatrix' = <<>>
    /\ indices' = <<>>
    /\ k' = 0
    /\ copied' = <<>>
    /\ IF Len(Elements(o)) = 0 /\ Len(Elements(m)) = 0
       THEN /\ ret' = [op |-> "reMarkup", kind |-> "verbatim", doc |-> m]
            /\ pc' = "returned"
       ELSE /\ ret' = NoRet
            /\ pc' = "distances"
    /\ UNCHANGED <<other, opt, elementFilters, nonexistentChildDistance, args>>

\* rm.reMarkup(o, m): parse both, return early when there is nothing to match
ReMarkupBegin(o, m) ==
    /\ original' = o
    /\ modified' = m
    /\ origDoc' = o
    /\ modDoc' = m
    /\ distanceMatrix' = <<>>
    /\ indices' = <<>>
    /\ k' = 0
    /\ copied' = <<>>
    /\ IF Len(Elements(o)) = 0 \/ Len(Elements(m)) = 0
       THEN /\ ret' = [op |-> "reMarkup", kind |-> "verbatim", doc |-> m]
            /\ pc' = "returned"
       ELSE /\ ret' = NoRet
            /\ pc' = "distances"
    /\ UNCHANGED <<other, opt, elementFilters, nonexistentChildDistance, args>>

ReMarkupCall(o, m) ==
    /\ pc = "idle"
    /\ ReMarkupBegin(o, m)

\* the client hands the result of unMarkup(X) back together with X
ReMarkupOfUnMarkup ==
    /\ pc = "returned"
    /\ ret.op = "unMarkup"
    /\ ReMarkupBegin(original, ret.doc)

\* mutant: the element filters are applied to the elements of the original tree
\* themselves, not to a copy
ComputeDistances_InPlace ==
    /\ pc = "distances"
    /\ distanceMatrix' = TopLoops(elementFilters, nonexistentChildDistance,
                                  origDoc, modDoc, distanceMatrix, 1)
    /\ origDoc' = unMarkup(elementFilters, origDoc)
    /\ pc' = "assign"
    /\ UNCHANGED <<other, opt, elementFilters, nonexistentChildDistance, original, modified,
                   modDoc, indices, k, copied, args, ret>>

\* the double loop that fills the distance matrix
ComputeDistances ==
    /\ pc = "distances"
    /\ LET D == TopLoops(elementFilters, nonexistentChildDistance,
                         origDoc, modDoc, distanceMatrix, 1)
       IN  /\ distanceMatrix' = D
           /\ IF Threw(D)
              THEN /\ ret' = [op |-> "reMarkup", kind |-> "AssertionError", doc |-> <<>>]
                   /\ pc' = "returned"
              ELSE /\ ret' = ret
                   /\ pc' = "assign"
    /\ UNCHANGED <<other, opt, elementFilters, nonexistentChildDistance, original, modified,
                   origDoc, modDoc, indices, k, copied, args>>

\* m.compute(distanceMatrix)
Assign ==
    /\ pc = "assign"
    /\ \E a \in Munkres(MatrixRows(distanceMatrix, Len(Elements(origDoc)),
                                   Len(Elements(modDoc)))) :
            indices' = a
    /\ k' = 0
    /\ pc' = "copy"
    /\ UNCHANGED <<other, opt, elementFilters, nonexistentChildDistance, original, modified,
                   origDoc, modDoc, distanceMatrix, copied, args, ret>>

\* mutant: the loop counter is not incremented
CopyStep_NoIncrement ==
    /\ pc = "copy"
    /\ k < Len(indices)
    /\ LET ci == indices[k + 1][1]
           cj == indices[k + 1][2]
           e1 == Elements(origDoc)[ci + 1]
           e2 == Elements(modDoc)[cj + 1]
       IN  modDoc' = [modDoc EXCEPT ![e2].attribs =
                        copyAttributes(origDoc[e1].attribs, @, semanticAttributes)]
    /\ UNCHANGED <<other, opt, elementFilters, nonexistentChildDistance, pc, original,
                   modified, origDoc, distanceMatrix, indices, k, copied, args, ret>>

\* mutant: the attributes of e1 are copied to every element of the edited tree
CopyStep_EveryElement ==
    /\ pc = "copy"
    /\ k < Len(indices)
    /\ LET ci == indices[k + 1][1]
           cj == indices[k + 1][2]
           e1 == Elements(origDoc)[ci + 1]
       IN  /\ modDoc' = [n \in 1..Len(modDoc) |->
                            IF modDoc[n].type = "tag"
                            THEN [modDoc[n] EXCEPT !.attribs =
                                    copyAttributes(origDoc[e1].attribs, @, semanticAttributes)]
                            ELSE modDoc[n]]
           /\ copied' = Append(copied, <<ci, cj>>)
    /\ k' = k + 1
    /\ UNCHANGED <<other, opt, elementFilters, nonexistentChildDistance, pc, original, modified,
                   origDoc, distanceMatrix, indices, args, ret>>

\* one turn of the copy loop
CopyStep ==
    /\ pc = "copy"
    /\ k < Len(indices)
    /\ LET ci == indices[k + 1][1]
           cj == indices[k + 1][2]
           e1 == Elements(origDoc)[ci + 1]
           e2 == Elements(modDoc)[cj + 1]
       IN  /\ modDoc' = [modDoc EXCEPT ![e2].attribs =
                            copyAttributes(origDoc[e1].attribs, @, semanticAttributes)]
           /\ copied' = Append(copied, <<ci, cj>>)
    /\ k' = k + 1
    /\ UNCHANGED <<other, opt, elementFilters, nonexistentChildDistance, pc, original, modified,
                   origDoc, distanceMatrix, indices, args, ret>>

\* mutant: the copy loop is left after its first turn
ReMarkupReturn_AfterFirst ==
    /\ pc = "copy"
    /\ k >= Min2(1, Len(indices))
    /\ ret' = [op |-> "reMarkup", kind |-> "html", doc |-> modDoc]
    /\ pc' = "returned"
    /\ UNCHANGED <<other, opt, elementFilters, nonexistentChildDistance, original,
                   modified, origDoc, modDoc, distanceMatrix, indices, k, copied, args>>

\* return modDoc.html()
ReMarkupReturn ==
    /\ pc = "copy"
    /\ k = Len(indices)
    /\ ret' = [op |-> "reMarkup", kind |-> "html", doc |-> modDoc]
    /\ pc' = "returned"
    /\ UNCHANGED <<other, opt, elementFilters, nonexistentChildDistance, original, modified,
                   origDoc, modDoc, distanceMatrix, indices, k, copied, args>>

\* rm.rawElementMetric(e1, e2, e1i, e2i, e1pl, e2pl), called directly
MetricCall(e1, e2, e1i, e2i) ==
    /\ pc = "idle"
    /\ args' = [e1 |-> e1, e2 |-> e2, e1i |-> e1i, e2i |-> e2i]
    /\ ret' = [op |-> "rawElementMetric", kind |-> "number",
               doc |-> defaultRawElementMetric(e1, e2, e1i, e2i, 1, 1)]
    /\ pc' = "returned"
    /\ UNCHANGED <<other, opt, elementFilters, nonexistentChildDistance, original, modified,
                   origDoc, modDoc, distanceMatrix, indices, k, copied>>

\* mutant: the new filter takes the place of the list
addElementFilter_Replace(filter) ==
    /\ pc = "idle"
    /\ elementFilters' = <<filter>>
    /\ UNCHANGED <<other, opt, nonexistentChildDistance, pc, original, modified, origDoc,
                   modDoc, distanceMatrix, indices, k, copied, args, ret>>

\* rm.addElementFilter(filter)
addElementFilter(filter) ==
    /\ pc = "idle"
    /\ elementFilters' = Append(elementFilters, filter)
    /\ UNCHANGED <<other, opt, nonexistentChildDistance, pc, original, modified, origDoc,
                   modDoc, distanceMatrix, indices, k, copied, args, ret>>

\* the instance and the locals of its call, as a record
ThisCall ==
    [opt |-> opt, elementFilters |-> elementFilters,
     nonexistentChildDistance |-> nonexistentChildDistance,
     pc |-> pc, original |-> original, modified |-> modified, origDoc |-> origDoc,
     modDoc |-> modDoc, distanceMatrix |-> distanceMatrix, indices |-> indices,
     k |-> k, copied |-> copied, args |-> args, ret |-> ret]

\* mutant: the distance matrix is one object that both calls use
Interleave_SharedMatrix ==
    /\ other' = [ThisCall EXCEPT !.distanceMatrix = other.distanceMatrix]
    /\ opt' = other.opt
    /\ elementFilters' = other.elementFilters
    /\ nonexistentChildDistance' = other.nonexistentChildDistance
    /\ pc' = other.pc
    /\ original' = other.original
    /\ modified' = other.modified
    /\ origDoc' = other.origDoc
    /\ modDoc' = other.modDoc
    /\ indices' = other.indices
    /\ k' = other.k
    /\ copied' = other.copied
    /\ args' = other.args
    /\ ret' = other.ret
    /\ UNCHANGED distanceMatrix

\* the next steps are those of the other call: origDoc, modDoc, origElements,
\* modElements, distanceMatrix, indices and k are locals of each reMarkup call
Interleave ==
    /\ other' = ThisCall
    /\ opt' = other.opt
    /\ elementFilters' = other.elementFilters
    /\ nonexistentChildDistance' = other.nonexistentChildDistance
    /\ pc' = other.pc
    /\ original' = other.original
    /\ modified' = other.modified
    /\ origDoc' = other.origDoc
    /\ modDoc' = other.modDoc
    /\ distanceMatrix' = other.distanceMatrix
    /\ indices' = other.indices
    /\ k' = other.k
    /\ copied' = other.copied
    /\ args' = other.args
    /\ ret' = other.ret

\* the steps of a running reMarkup call
ReMarkupSteps == ComputeDistances \/ Assign \/ CopyStep \/ ReMarkupReturn

(***************************************************************************)
(* Inputs of the unMarkup checks                                           *)
(***************************************************************************)
MaxAttrs == 2

DistinctNames(attribs) ==
    \A i, j \in 1..Len(attribs) : attribs[i].name = attribs[j].name => i = j

\* attribute lists of at most n attributes out of A, names unique
AttrLists(n, A) ==
    {s \in UNION {Injections(m, A) : m \in 0..n} : DistinctNames(s)}

UnmarkAttrs ==
    { Attr(Str_id, <<"x">>), Attr(Str_class, <<"c">>),
      Attr(Str_type, Val_button), Attr(Str_type, Val_submit), Attr(Str_type, Val_text),
      Attr(Str_value, <<"v">>),
      Attr(Str_translate_role, <<"r">>), Attr(Str_translate_, <<>>),
      Attr(Str_remarkup_id, <<"y">>), Attr(Str_xtranslate_id, <<"z">>),
      Attr(Str_alt, <<"a">>), Attr(Str_label, <<"l">>), Attr(Str_placeholder, <<"p">>),
      Attr(Str_title, <<"t">>), Attr(Str_tooltip, <<"o">>),
      Attr(Str_data_info, <<"d">>), Attr(Str_popover, <<"q">>) }

InnerAttrLists ==
    { <<>>, <<Attr(Str_class, <<"c">>)>>,
      <<Attr(Str_value, <<"w">>), Attr(Str_type, Val_submit)>> }

UnmarkDocs ==
    {<<El("input", 0, a)>> : a \in AttrLists(MaxAttrs, UnmarkAttrs)}
    \cup
    { << Txt(0, <<" ", "A">>), El("a", 0, a), Txt(2, <<"B", " ">>),
         El("em", 2, b), Txt(4, <<"C">>), El("br", 0, <<>>) >> :
        a \in AttrLists(MaxAttrs, UnmarkAttrs), b \in InnerAttrLists }

\* the client calls unMarkup when no call is running
AnyUnMarkupCall ==
    /\ pc = "idle"
    /\ \E X \in UnmarkDocs : UnMarkupCall(X)

NextUnmark ==
    \/ AnyUnMarkupCall
    \/ Return

SpecUnmark == Init /\ [][NextUnmark]_vars

(***************************************************************************)
(* Claims about unMarkup                                                   *)
(***************************************************************************)
UnMarkupReturned == pc = "returned" /\ ret.op = "unMarkup"

SemanticNames ==
    {Str_alt, Str_label, Str_placeholder, Str_title, Str_tooltip, Str_data_info,
     Str_popover}

\* what the documentation says the default filter keeps on element e
KeptByDefault(n, e) ==
    \/ n = Str_id
    \/ Len(n) > 2 /\ SubSeq(n, 1, 2) \in {<<"remarkup", "-">>, <<"translate", "-">>}
    \/ n \in SemanticNames
    \/ /\ n = Str_value
       /\ \E i \in 1..Len(e.attribs) :
            e.attribs[i] \in {Attr(Str_type, Val_button), Attr(Str_type, Val_submit)}

\* C8: after unMarkup with default options every element has exactly those of
\* its input attributes that are id, remarkup-<suffix>, translate-<suffix> or
\* semantic, each with its input value, and no other attribute.
C8_DefaultFilterKeeps ==
    UnMarkupReturned =>
        /\ Len(ret.doc) = Len(original)
        /\ \A i \in 1..Len(original) :
            LET in == original[i].attribs
                out == ret.doc[i].attribs
            IN  /\ DistinctNames(out)
                /\ \A a \in Range(out) : a \in Range(in)
                /\ \A a \in Range(in) : (a \in Range(out)) <=> KeptByDefault(a.name, original[i])

C8_Witness ==
    /\ UnMarkupReturned
    /\ \E i \in 1..Len(original) :
        /\ original[i].attribs = <<Attr(Str_class, <<"c">>), Attr(Str_translate_role, <<"r">>)>>
        /\ ret.doc[i].attribs = <<Attr(Str_translate_role, <<"r">>)>>

\* C9: unMarkup keeps value exactly when the element's type in the input is
\* button or submit, whatever the order of the two attributes.
C9_ValueKeptByInputType ==
    UnMarkupReturned =>
        \A i \in 1..Len(original) :
            HasAttr(original[i].attribs, Str_value) =>
                ( HasAttr(ret.doc[i].attribs, Str_value)
                  <=> /\ HasAttr(original[i].attribs, Str_type)
                      /\ GetAttr(original[i].attribs, Str_type) \in {Val_button, Val_submit} )

\* type is visited (and removed) before value, and value is still kept
C9_Witness ==
    /\ UnMarkupReturned
    /\ \E i \in 1..Len(original) :
        /\ original[i].attribs = <<Attr(Str_type, Val_button), Attr(Str_value, <<"v">>)>>
        /\ ret.doc[i].attribs = <<Attr(Str_value, <<"v">>)>>

Skeleton(doc) == [i \in 1..Len(doc) |-> [doc[i] EXCEPT !.attribs = <<>>]]

\* C10: unMarkup with default options changes attributes only: nodes, tag
\* names, parents, order and text are those of the input.
C10_UnMarkupFrame ==
    UnMarkupReturned => Skeleton(ret.doc) = Skeleton(original)

C10_Witness ==
    /\ UnMarkupReturned
    /\ Len(original) = 6
    /\ original[4].parent = 2
    /\ original[3].type = "text"
    /\ ret.doc # original
    /\ Skeleton(ret.doc) = Skeleton(original)

(***************************************************************************)
(* Inputs of the reMarkup checks                                           *)
(***************************************************************************)
MaxElems == 2

\* node i and its ancestors, by the parent vector p
RECURSIVE AncestorsOrSelf(_, _)
AncestorsOrSelf(p, i) ==
    IF i = 0 THEN {} ELSE {i} \cup AncestorsOrSelf(p, p[i])

\* the parent vectors of the forests of n elements in document order
RECURSIVE Shapes(_)
Shapes(n) ==
    IF n = 0 THEN {<<>>}
    ELSE UNION { {Append(p, q) : q \in {0} \cup AncestorsOrSelf(p, n - 1)} :
                 p \in Shapes(n - 1) }

Opt(tag, attribs) == [tag |-> tag, attribs |-> attribs]

\* the fragments of 1..n elements, every element one of opts
Forests(n, opts) ==
    UNION { { [i \in 1..m |-> El(ch[i].tag, p[i], ch[i].attribs)] :
                p \in Shapes(m), ch \in [1..m -> opts] } : m \in 1..n }

\* fragments without any element
TextOnly == {<<>>, <<Txt(0, <<"t">>)>>}

\* one-element fragments with text around and inside the element
Lift(doc) == <<Txt(0, <<"s">>)>>
             \o [i \in 1..Len(doc) |-> [doc[i] EXCEPT !.parent = IF @ = 0 THEN 0 ELSE @ + 1]]
             \o <<Txt(2, <<"u">>)>>

WithText(opts) == {Lift(<<El(o.tag, 0, o.attribs)>>) : o \in opts}

Fragments(n, opts) == TextOnly \cup WithText(opts) \cup Forests(n, opts)

\* semantic attributes on both sides, with different values
SemanticOrig ==
    { Opt("input", <<Attr(Str_type, Val_button), Attr(Str_value, <<"S">>),
                     Attr(Str_title, <<"T">>), Attr(Str_class, <<"c">>)>>),
      Opt("input", <<Attr(Str_type, Val_text), Attr(Str_value, <<"R">>),
                     Attr(Str_alt, <<"A">>)>>) }

SemanticMod ==
    { Opt("input", <<Attr(Str_type, Val_button), Attr(Str_value, <<"B">>),
                     Attr(Str_title, <<"U">>)>>),
      Opt("input", <<Attr(Str_type, Val_text), Attr(Str_value, <<"X">>),
                     Attr(Str_alt, <<"V">>), Attr(Str_class, <<"d">>)>>) }

\* one identity value, carried or not
IdentOrig ==
    { Opt("a", <<Attr(Str_id, <<"x">>), Attr(Str_class, <<"c">>)>>),
      Opt("b", <<Attr(Str_class, <<"e">>)>>) }

IdentMod ==
    { Opt("a", <<Attr(Str_id, <<"x">>)>>),
      Opt("a", <<>>) }

\* <span>A</span><em id="x">B</em> and the edited <em>B'</em><span>A'</span>
ReorderOriginal ==
    << El("span", 0, <<>>), Txt(1, <<"A">>),
       El("em", 0, <<Attr(Str_id, <<"x">>)>>), Txt(3, <<"B">>) >>

ReorderModified ==
    << El("em", 0, <<>>), Txt(1, <<"B", "'">>),
       El("span", 0, <<>>), Txt(3, <<"A", "'">>) >>

\* two sibling <span> elements told apart by translate-role only
RoleValues == {<<"s">>, <<"o">>, <<"v", "b">>, <<"v", "e", "r", "b">>}

RolePair(v1, v2) ==
    << El("span", 0, <<Attr(Str_translate_role, v1)>>), Txt(1, v1),
       El("span", 0, <<Attr(Str_translate_role, v2)>>), Txt(3, v2) >>

SwappedRoles ==
    { <<RolePair(v[1], v[2]), RolePair(v[2], v[1])>> :
        v \in {w \in RoleValues \X RoleValues : w[1] # w[2]} }

\* <p><span>one</span><span>two</span></p> and the edited <p><span>1</span></p>
MismatchOriginal ==
    << El("p", 0, <<>>), El("span", 1, <<>>), Txt(2, <<"o", "n", "e">>),
       El("span", 1, <<>>), Txt(4, <<"t", "w", "o">>) >>

MismatchModified ==
    << El("p", 0, <<>>), El("span", 1, <<>>), Txt(2, <<"1">>) >>

\* elements and text nodes as children of one element, after bananasOriginal and
\* bananasGermanCorrectNoID of the tests
MixedOriginal ==
    << El("span", 0, <<>>),
       El("span", 1, <<Attr(Str_class, <<"c">>)>>), Txt(2, <<"B">>),
       Txt(1, <<" ", "a", " ">>),
       El("em", 1, <<Attr(Str_id, <<"x">>)>>), Txt(5, <<"g">>),
       Txt(1, <<"!">>) >>

MixedModified ==
    << El("span", 0, <<>>),
       El("span", 1, <<>>), Txt(2, <<"B", "'">>),
       Txt(1, <<" ", "s", " ">>),
       El("em", 1, <<>>), Txt(5, <<"t">>),
       Txt(1, <<"!">>) >>

\* a <p> with up to MaxKids child elements, each a <span> or an <em>
MaxKids == 2

Family(kids) ==
    <<El("p", 0, <<>>)>> \o [i \in 1..Len(kids) |-> El(kids[i], 1, <<>>)]

Families == {Family(kids) : kids \in UNION {[1..n -> {"span", "em"}] : n \in 0..MaxKids}}

ChildCountInputs == Families \X Families

ScenarioInputs ==
    {<<ReorderOriginal, ReorderModified>>, <<MismatchOriginal, MismatchModified>>,
     <<MixedOriginal, MixedModified>>}
    \cup SwappedRoles \cup ChildCountInputs

ReMarkupInputs ==
    (Fragments(MaxElems, SemanticOrig) \X Fragments(MaxElems, SemanticMod))
    \cup (Fragments(MaxElems, IdentOrig) \X Fragments(MaxElems, IdentMod))
    \cup ScenarioInputs

\* the client calls reMarkup when no call is running
AnyReMarkupCall ==
    /\ pc = "idle"
    /\ \E in \in ReMarkupInputs : ReMarkupCall(in[1], in[2])

Next ==
    \/ AnyReMarkupCall
    \/ ReMarkupSteps
    \/ Return

Spec == Init /\ [][Next]_vars

(***************************************************************************)
(* Claims about reMarkup                                                   *)
(***************************************************************************)
ReMarkupReturned == pc = "returned" /\ ret.op = "reMarkup"

ReMarkupMatched == ReMarkupReturned /\ ret.kind = "html"

\* the nodes of the pair <<ci, cj>> the copy loop has visited
OrigOf(pair) == original[Elements(original)[pair[1] + 1]]
ModOf(pair) == modified[Elements(modified)[pair[2] + 1]]
OutOf(pair) == ret.doc[Elements(modified)[pair[2] + 1]]

\* C2: when reMarkup returns, every edited element that has one of alt, label,
\* placeholder, title, tooltip, data-info, popover has it in the output with
\* the value of the edited input, whatever the matched original element has.
C2_SemanticPreserved ==
    ReMarkupReturned =>
        \A j \in 1..Len(modified) : \A n \in SemanticNames :
            HasAttr(modified[j].attribs, n) =>
                /\ HasAttr(ret.doc[j].attribs, n)
                /\ GetAttr(ret.doc[j].attribs, n) = GetAttr(modified[j].attribs, n)

\* a matched pair with different titles: the class is copied, the title stays
C2_Witness ==
    /\ ReMarkupMatched
    /\ \E n \in 1..Len(copied) :
        /\ Attr(Str_title, <<"T">>) \in Range(OrigOf(copied[n]).attribs)
        /\ Attr(Str_title, <<"U">>) \in Range(ModOf(copied[n]).attribs)
        /\ Attr(Str_title, <<"U">>) \in Range(OutOf(copied[n]).attribs)
        /\ Attr(Str_class, <<"c">>) \in Range(OutOf(copied[n]).attribs)

IsButton(e) ==
    HasAttr(e.attribs, Str_type) /\ GetAttr(e.attribs, Str_type) \in {Val_button, Val_submit}

\* C3: for a matched pair (o, m) of type button or submit the output value of
\* m is the value m had in the edited input; for a matched pair of any other
\* type the output value of m is the value of o.
C3_PredicateHonoured ==
    ReMarkupMatched =>
        \A n \in 1..Len(copied) :
            LET o == OrigOf(copied[n])
                m == ModOf(copied[n])
                out == OutOf(copied[n])
            IN  /\ (IsButton(o) /\ IsButton(m) /\ HasAttr(m.attribs, Str_value)) =>
                        GetAttr(out.attribs, Str_value) = GetAttr(m.attribs, Str_value)
                /\ (~IsButton(o) /\ ~IsButton(m) /\ HasAttr(o.attribs, Str_value)) =>
                        GetAttr(out.attribs, Str_value) = GetAttr(o.attribs, Str_value)

\* C4: among the pairs for which copyAttributes has run, no two have the same
\* original index and no two have the same edited index.
C4_OneToOne ==
    \A a, b \in 1..Len(copied) :
        (copied[a][1] = copied[b][1] \/ copied[a][2] = copied[b][2]) => a = b

C4_Witness ==
    /\ ReMarkupMatched
    /\ Len(Elements(original)) = 2
    /\ Len(Elements(modified)) = 2
    /\ Len(copied) = 2

\* the elements of doc that have attribute n with value v
Carriers(doc, n, v) ==
    {i \in 1..Len(doc) : HasAttr(doc[i].attribs, n) /\ GetAttr(doc[i].attribs, n) = v}

\* C5: when exactly one original element o and exactly one edited element m
\* have the same value for one of id, translate-id, remarkup-id, reMarkup pairs
\* o with m, and the output m has the non-semantic attributes of o.
C5_IdentityForces ==
    ReMarkupMatched =>
        \A i \in 1..Len(Elements(original)), j \in 1..Len(Elements(modified)) :
            LET o == original[Elements(original)[i]]
                m == modified[Elements(modified)[j]]
            IN  (\E n \in Range(identAttr) :
                    /\ HasAttr(o.attribs, n)
                    /\ Carriers(original, n, GetAttr(o.attribs, n)) = {Elements(original)[i]}
                    /\ Carriers(modified, n, GetAttr(o.attribs, n)) = {Elements(modified)[j]})
                =>
                /\ <<i - 1, j - 1>> \in Range(copied)
                /\ \A a \in Range(o.attribs) :
                        a.name \notin SemanticNames =>
                            /\ HasAttr(OutOf(<<i - 1, j - 1>>).attribs, a.name)
                            /\ GetAttr(OutOf(<<i - 1, j - 1>>).attribs, a.name) = a.value

\* C7: a reMarkup call one of whose fragments has no element returns its
\* second argument as it is; no distance is computed and no assignment made.
C7_NothingToReconcile ==
    ( /\ ret.op = "reMarkup" \/ pc \in {"distances", "assign", "copy"}
      /\ Len(Elements(original)) = 0 \/ Len(Elements(modified)) = 0 )
    =>
    /\ pc = "returned"
    /\ ret.kind = "verbatim"
    /\ ret.doc = modified
    /\ distanceMatrix = <<>>
    /\ indices = <<>>
    /\ copied = <<>>

\* text only on the original side, an element on the edited side
C7_Witness ==
    /\ ReMarkupReturned
    /\ original = <<Txt(0, <<"t">>)>>
    /\ Len(Elements(modified)) > 0
    /\ ret.kind = "verbatim"
    /\ ret.doc = modified

(***************************************************************************)
(* The metric called on its own                                            *)
(***************************************************************************)
MaxIndex == 3

MetricAttrs ==
    { Attr(Str_id, <<"x">>), Attr(Str_id, <<"y">>), Attr(Str_id, <<>>),
      Attr(Str_translate_id, <<"x">>), Attr(Str_remarkup_id, <<"x">>),
      Attr(Str_class, <<"c">>), Attr(Str_class, <<"d", "d">>),
      Attr(Str_title, <<"t">>) }

\* <input type="button"> with and without a value and a title
ButtonFirsts ==
    { El("input", 0, <<Attr(Str_type, Val_button)>>),
      El("input", 0, <<Attr(Str_type, Val_button), Attr(Str_value, <<"S">>)>>),
      El("input", 0, <<Attr(Str_type, Val_submit), Attr(Str_value, <<"S">>),
                       Attr(Str_title, <<"t">>)>>),
      El("input", 0, <<Attr(Str_type, Val_text), Attr(Str_value, <<"S">>)>>) }

MetricFirsts ==
    {El("a", 0, a) : a \in AttrLists(MaxAttrs, MetricAttrs)} \cup ButtonFirsts

MetricSeconds ==
    { El("a", 0, <<>>),
      El("a", 0, <<Attr(Str_id, <<"x">>)>>),
      El("b", 0, <<Attr(Str_class, <<"c">>), Attr(Str_id, <<"x">>)>>),
      El("a", 0, <<Attr(Str_id, <<"y">>)>>),
      El("b", 0, <<Attr(Str_id, <<>>)>>),
      El("b", 0, <<Attr(Str_translate_id, <<"x">>)>>),
      El("a", 0, <<Attr(Str_id, <<"y">>), Attr(Str_translate_id, <<"x">>)>>),
      El("a", 0, <<Attr(Str_remarkup_id, <<"x">>)>>),
      El("b", 0, <<Attr(Str_title, <<"u">>), Attr(Str_remarkup_id, <<"x">>)>>),
      El("a", 0, <<Attr(Str_translate_id, <<"y">>)>>),
      El("a", 0, <<Attr(Str_class, <<"d", "d">>)>>),
      El("a", 0, <<Attr(Str_class, <<"d">>)>>),
      El("a", 0, <<Attr(Str_title, <<"t">>), Attr(Str_class, <<"d", "d">>)>>),
      El("b", 0, <<Attr(Str_class, <<"c">>)>>),
      El("input", 0, <<Attr(Str_type, Val_button)>>),
      El("input", 0, <<Attr(Str_type, Val_button), Attr(Str_value, <<"O", "K">>)>>),
      El("input", 0, <<Attr(Str_type, Val_submit), Attr(Str_value, <<"S">>),
                       Attr(Str_alt, <<"u">>)>>) }

\* the client calls the metric when no call is running
AnyMetricCall ==
    /\ pc = "idle"
    /\ \E e1 \in MetricFirsts, e2 \in MetricSeconds,
          e1i \in 0..MaxIndex, e2i \in {0, MaxIndex} : MetricCall(e1, e2, e1i, e2i)

NextMetric ==
    \/ AnyMetricCall
    \/ Return

SpecMetric == Init /\ [][NextMetric]_vars

MetricReturned == pc = "returned" /\ ret.op = "rawElementMetric"

\* C6: when e1 and e2 both have id, or both translate-id, or both remarkup-id,
\* with equal values, defaultRawElementMetric returns 0, whatever the tag names,
\* the other attributes and the two indices are.
C6_IdentityShortCircuit ==
    MetricReturned =>
        ( (\E n \in {Str_id, Str_translate_id, Str_remarkup_id} :
              \E a \in Range(args.e1.attribs) :
                  a.name = n /\ a \in Range(args.e2.attribs))
          => ret.doc = 0 )

\* different tags, a class only e1 has, different indices, a shared translate-id
C6_Witness ==
    /\ MetricReturned
    /\ args.e1 = El("a", 0, <<Attr(Str_class, <<"c">>), Attr(Str_translate_id, <<"x">>)>>)
    /\ args.e2 = El("b", 0, <<Attr(Str_translate_id, <<"x">>)>>)
    /\ args.e1i = 2
    /\ args.e2i = 0
    /\ ret.doc = 0

(***************************************************************************)
(* The round trip reMarkup(X, unMarkup(X))                                 *)
(***************************************************************************)
MaxRoundTripElems == 6

\* class="c", "cc", "ccc", ... : a different value on every element
ClassOf(i) == Attr(Str_class, [n \in 1..i |-> "c"])

\* nested and sibling <a> elements without identity attributes
RoundTripDocs ==
    UNION { { [i \in 1..m |-> El("a", p[i], <<ClassOf(i)>>)] : p \in Shapes(m) } :
            m \in 1..MaxRoundTripElems }

\* the client calls unMarkup on a document of the round trip
RoundTripUnMarkupCall ==
    /\ pc = "idle"
    /\ \E X \in RoundTripDocs : UnMarkupCall(X)

NextRoundTrip ==
    \/ RoundTripUnMarkupCall
    \/ ReMarkupOfUnMarkup
    \/ ReMarkupSteps
    \/ Return

SpecRoundTrip == Init /\ [][NextRoundTrip]_vars

\* C1: reMarkup(X, unMarkup(X)) pairs the i-th element of X with the i-th
\* element of unMarkup(X), and every element of the output has every
\* non-semantic attribute of the same-position element of X with its value.
C1_RoundTrip ==
    (ReMarkupMatched /\ modified = unMarkup(elementFilters, original)) =>
        /\ Range(copied) = {<<i - 1, i - 1>> : i \in 1..Len(Elements(original))}
        /\ \A i \in 1..Len(original) : \A a \in Range(original[i].attribs) :
                a.name \notin SemanticNames => a \in Range(ret.doc[i].attribs)

(***************************************************************************)
(* Claims about the copy loop                                              *)
(***************************************************************************)
\* semantic by the list semanticAttributes() describes: one of the seven
\* names, or value on an element of type button or submit
IsSemantic(n, e) == n \in SemanticNames \/ ValueOfButton(n, e)

\* C11: for every pair (o, m) of the global assignment, every attribute of o
\* that is not semantic is on the output m with o's value, also when m had it
\* with another value; every attribute of m whose name o does not have is on
\* the output m with m's value.
C11_AttributeCopy ==
    ReMarkupMatched =>
        /\ Range(copied) = Range(indices)
        /\ \A n \in 1..Len(copied) :
            LET o == OrigOf(copied[n])
                m == ModOf(copied[n])
                out == OutOf(copied[n])
            IN  /\ \A a \in Range(o.attribs) :
                        ~IsSemantic(a.name, o) => a \in Range(out.attribs)
                /\ \A a \in Range(m.attribs) :
                        ~HasAttr(o.attribs, a.name) => a \in Range(out.attribs)

\* class is overwritten, alt is only on m and stays
C11_Witness ==
    /\ ReMarkupMatched
    /\ \E n \in 1..Len(copied) :
        /\ Attr(Str_class, <<"c">>) \in Range(OrigOf(copied[n]).attribs)
        /\ Attr(Str_class, <<"d">>) \in Range(ModOf(copied[n]).attribs)
        /\ Attr(Str_class, <<"c">>) \in Range(OutOf(copied[n]).attribs)
        /\ ~HasAttr(OrigOf(copied[n]).attribs, Str_alt)
        /\ Attr(Str_alt, <<"V">>) \in Range(OutOf(copied[n]).attribs)

\* the edited elements (0-based indices) no pair of the copy loop names
Unmatched == {j \in 0..(Len(Elements(modified)) - 1) : \A n \in 1..Len(copied) : copied[n][2] # j}

\* C12: an edited element in no matched pair has in the output exactly the
\* attributes it had in the edited input; tag names, tree structure, element
\* order and text of the output are those of the edited input.
C12_ReMarkupFrame ==
    ReMarkupReturned =>
        /\ Skeleton(ret.doc) = Skeleton(modified)
        /\ \A j \in Unmatched :
                ret.doc[Elements(modified)[j + 1]].attribs
                    = modified[Elements(modified)[j + 1]].attribs

\* one original element, two edited elements: one of them is left alone
C12_Witness ==
    /\ ReMarkupMatched
    /\ Len(Elements(original)) = 1
    /\ Len(Elements(modified)) = 2
    /\ Cardinality(Unmatched) = 1
    /\ \E j \in Unmatched : modified[Elements(modified)[j + 1]].attribs # <<>>
    /\ ret.doc # modified

(***************************************************************************)
(* Claims about reordered fragments                                        *)
(***************************************************************************)
\* C13: for the original <span>A</span><em id="x">B</em> and the edited
\* <em>B'</em><span>A'</span> the output has id="x" on the em element and no
\* id on the span element.
C13_ReorderTolerance ==
    (ReMarkupReturned /\ original = ReorderOriginal /\ modified = ReorderModified) =>
        /\ ret.kind = "html"
        /\ Len(ret.doc) = 4
        /\ ret.doc[1].name = "em"
        /\ ret.doc[1].attribs = <<Attr(Str_id, <<"x">>)>>
        /\ ret.doc[3].name = "span"
        /\ ~HasAttr(ret.doc[3].attribs, Str_id)

C13_Witness ==
    /\ ReMarkupMatched
    /\ original = ReorderOriginal
    /\ modified = ReorderModified
    /\ copied = << <<0, 1>>, <<1, 0>> >>

\* two same-tag siblings, each with translate-role, of different values
TwoRoles(doc) ==
    /\ Len(Elements(doc)) = 2
    /\ \A i \in Range(Elements(doc)) :
            doc[i].parent = 0 /\ HasAttr(doc[i].attribs, Str_translate_role)
    /\ doc[Elements(doc)[1]].name = doc[Elements(doc)[2]].name
    /\ GetAttr(doc[Elements(doc)[1]].attribs, Str_translate_role)
        # GetAttr(doc[Elements(doc)[2]].attribs, Str_translate_role)

\* C14: when the original has two same-tag siblings that differ in the value
\* of translate-role and the edited fragment has the same two elements in
\* swapped order, every edited element is paired with the original of equal
\* translate-role, and the output elements have the values of the edited input.
C14_MatchByPreservedValue ==
    ( /\ ReMarkupMatched
      /\ TwoRoles(original)
      /\ TwoRoles(modified)
      /\ \A n \in 1..2 :
            modified[Elements(modified)[n]].attribs
                = original[Elements(original)[3 - n]].attribs )
    =>
    /\ Range(copied) = {<<0, 1>>, <<1, 0>>}
    /\ \A n \in 1..2 :
            ret.doc[Elements(modified)[n]].attribs
                = modified[Elements(modified)[n]].attribs

(***************************************************************************)
(* Claims about the distance matrix                                        *)
(***************************************************************************)
\* every cell of the matrix has been assigned and the inputs are still known
MatrixComplete == pc \in {"assign", "copy"} \/ ReMarkupMatched

OrigIndices == 0..(Len(Elements(original)) - 1)
ModIndices == 0..(Len(Elements(modified)) - 1)

\* the element children of the element with 0-based index i, as 0-based indices
KidsOf(doc, i) ==
    LET es == Elements(doc)
    IN  SelectSeq([n \in 1..Len(es) |-> n - 1],
                  LAMBDA c : doc[es[c + 1]].parent = es[i + 1])

\* the least total cost of a one-to-one pairing of the children of i and j,
\* found by trying every pairing
ChildCost(i, j) ==
    LET k1 == KidsOf(original, i)
        k2 == KidsOf(modified, j)
        cm == [a \in 1..Len(k1) |-> [b \in 1..Len(k2) |->
                    Cell(distanceMatrix, k1[a], k2[b])]]
    IN  IF Len(k1) > 0 /\ Len(k2) > 0
        THEN MinOf({AssignmentCost(cm, a) : a \in Assignments(Len(k1), Len(k2))})
        ELSE 0

CountDifference(i, j) ==
    LET n1 == Len(KidsOf(original, i))
        n2 == Len(KidsOf(modified, j))
    IN  IF n1 >= n2 THEN n1 - n2 ELSE n2 - n1

RawDistance(i, j) ==
    LET e1 == Elements(original)[i + 1]
        e2 == Elements(modified)[j + 1]
    IN  defaultRawElementMetric(
            unMarkupRecurse(elementFilters, CloneNode(original, e1), 1)[1],
            modified[e2], i, j, 1, 1)

\* C15: the stored cost of every pair (e1, e2) is the cost of a cheapest
\* pairing of their element children (0 when one of them has none), plus the
\* difference of the numbers of element children times nonexistentChildDistance,
\* plus the element metric of the filtered clone of e1 and e2; for
\* <p><span>one</span><span>two</span></p> and <p><span>1</span></p> the cost
\* of (p, p) holds the penalty once.
C15_CostDecomposition ==
    MatrixComplete =>
        /\ \A i \in OrigIndices, j \in ModIndices :
                Cell(distanceMatrix, i, j)
                    = ChildCost(i, j)
                      + CountDifference(i, j) * nonexistentChildDistance
                      + RawDistance(i, j)
        /\ (original = MismatchOriginal /\ modified = MismatchModified) =>
                Cell(distanceMatrix, 0, 0) = 5000 + nonexistentChildDistance + 5000

C15_Witness ==
    /\ ReMarkupMatched
    /\ original = MismatchOriginal
    /\ modified = MismatchModified
    /\ Cell(distanceMatrix, 0, 0) = 20000

\* the last node of doc is an element without children whose parent is the
\* first node of doc, an element
LastIsChildOfFirst(doc) ==
    /\ Len(doc) >= 2
    /\ doc[1].type = "tag"
    /\ doc[Len(doc)].type = "tag"
    /\ doc[Len(doc)].parent = 1

WithoutLast(doc) == SubSeq(doc, 1, Len(doc) - 1)

\* the cost of the pair of the first elements of o and m
FirstPairCost(o, m) ==
    Cell(TopLoops(elementFilters, nonexistentChildDistance, o, m, <<>>, 1), 0, 0)

\* the edited first element has one child more than in WithoutLast(modified),
\* where it had at least as many as the original first element
GrownModified ==
    /\ MatrixComplete
    /\ original[1].type = "tag"
    /\ LastIsChildOfFirst(modified)
    /\ Len(KidsOf(WithoutLast(modified), 0)) >= Len(KidsOf(original, 0))

\* the same with the sides exchanged
GrownOriginal ==
    /\ MatrixComplete
    /\ modified[1].type = "tag"
    /\ LastIsChildOfFirst(original)
    /\ Len(KidsOf(WithoutLast(original), 0)) >= Len(KidsOf(modified, 0))

WritesOf(i, j) ==
    {n \in 1..Len(distanceMatrix) :
        distanceMatrix[n].e1i = i /\ distanceMatrix[n].e2i = j}

\* C17: within one reMarkup call every cell (i, j) is computed and assigned
\* at most once, after the cells of all pairs of children of i and j; when
\* the global assignment is solved every cell of the matrix has been assigned
\* exactly once, and it keeps its value until the call returns.
C17_Memoization ==
    /\ (pc \in {"distances", "assign", "copy"} \/ ReMarkupMatched) =>
        \A i \in OrigIndices, j \in ModIndices :
            /\ Cardinality(WritesOf(i, j)) <= 1
            /\ \A n \in WritesOf(i, j) :
                (Len(KidsOf(original, i)) > 0 /\ Len(KidsOf(modified, j)) > 0) =>
                    \A a \in Range(KidsOf(original, i)), b \in Range(KidsOf(modified, j)) :
                        \E x \in WritesOf(a, b) : x < n
    /\ MatrixComplete =>
        /\ Len(distanceMatrix) = Len(Elements(original)) * Len(Elements(modified))
        /\ \A i \in OrigIndices, j \in ModIndices : Cardinality(WritesOf(i, j)) = 1

\* nested elements on both sides: the cell of the children is asked for by
\* the parents first and by the top-level loop again
C17_Witness ==
    /\ pc = "assign"
    /\ Len(KidsOf(original, 0)) = 2
    /\ Len(KidsOf(modified, 0)) = 2
    /\ distanceMatrix[1].e1i = 1
    /\ distanceMatrix[1].e2i = 1
    /\ distanceMatrix[5].e1i = 0
    /\ distanceMatrix[5].e2i = 0
    /\ Len(distanceMatrix) = 9

\* C18: every cost stored in the distance matrix is a finite number that is
\* at least 0: no logarithm of 0 has entered it.
C18_FiniteNonNegative ==
    \A n \in 1..Len(distanceMatrix) :
        /\ distanceMatrix[n].distance >= 0
        /\ distanceMatrix[n].distance < Infinity

\* equal indices and a value that differs: both guards have been passed
C18_Witness ==
    /\ pc = "assign"
    /\ original = RolePair(<<"s">>, <<"o">>)
    /\ modified = RolePair(<<"o">>, <<"s">>)
    /\ Cell(distanceMatrix, 0, 0) = 5000
    /\ Cell(distanceMatrix, 0, 1) = 6000

(***************************************************************************)
(* Claims about the terms of the metric                                    *)
(***************************************************************************)
\* the names of the attributes e1 and e2 both have, with different values
Changed(e1, e2) ==
    {a.name : a \in {x \in Range(e1.attribs) :
        HasAttr(e2.attribs, x.name) /\ GetAttr(e2.attribs, x.name) # x.value}}

\* same tag, same attribute names, no identity attribute, the same index, and
\* exactly one attribute, not a semantic one, with another value
ValueOnlyChange ==
    /\ MetricReturned
    /\ args.e1.name = args.e2.name
    /\ Range(AttrNames(args.e1.attribs)) = Range(AttrNames(args.e2.attribs))
    /\ Range(AttrNames(args.e1.attribs)) \cap Range(identAttr) = {}
    /\ args.e1i = args.e2i
    /\ Cardinality(Changed(args.e1, args.e2)) = 1
    /\ Changed(args.e1, args.e2) \cap SemanticNames = {}

ChangedName == CHOOSE n \in Changed(args.e1, args.e2) : TRUE

\* C19: for such a pair the metric is its value for equal attributes plus
\* 2 * ln(edit distance of the two values); for edit distance 1 it is the
\* value for equal attributes.
C19_ValueOnlyChange ==
    ValueOnlyChange =>
        LET equal == defaultRawElementMetric(args.e1, args.e1, args.e1i, args.e1i, 1, 1)
            d == Levenshtein(GetAttr(args.e1.attribs, ChangedName),
                             GetAttr(args.e2.attribs, ChangedName))
        IN  /\ d >= 1
            /\ ret.doc = equal + 2 * LogTable[d]
            /\ d = 1 => ret.doc = equal

\* class="c" against class="dd": edit distance 2, 5 + 2 * ln 2
C19_Witness ==
    /\ ValueOnlyChange
    /\ args.e1.attribs = <<Attr(Str_title, <<"t">>), Attr(Str_class, <<"c">>)>>
    /\ args.e2.attribs = <<Attr(Str_title, <<"t">>), Attr(Str_class, <<"d", "d">>)>>
    /\ args.e1i = MaxIndex
    /\ ret.doc = 6386

\* a returned call of the metric on a pair without a shared identity value
NonIdentityCall == MetricReturned /\ ~SharesIdent(args.e1, args.e2)

IndexDifference == IF args.e1i >= args.e2i THEN args.e1i - args.e2i ELSE args.e2i - args.e1i

\* what position adds for index difference d: the metric of the pair at
\* indices (d, 0) less the metric of the pair at indices (0, 0)
PositionTerm(d) ==
    defaultRawElementMetric(args.e1, args.e2, d, 0, 1, 1)
        - defaultRawElementMetric(args.e1, args.e2, 0, 0, 1, 1)

\* C20 as stated: for a non-identity pair position adds a constant times the
\* logarithm of the index difference, so it adds the same, nothing, for index
\* difference 0 and index difference 1.
C20_PositionProportional ==
    NonIdentityCall =>
        /\ IndexDifference <= 1 =>
                ret.doc = defaultRawElementMetric(args.e1, args.e2, args.e2i, args.e2i, 1, 1)
        /\ IndexDifference >= 1 =>
                PositionTerm(IndexDifference) * LogTable[2]
                    = PositionTerm(2) * LogTable[IndexDifference]

\* C20 amended: for a non-identity pair position adds nothing for index
\* difference 0 and 2 * ln(index difference) + 1 otherwise, so 1 for index
\* difference 1.
C20_PositionTerm ==
    NonIdentityCall =>
        LET same == defaultRawElementMetric(args.e1, args.e2, args.e2i, args.e2i, 1, 1)
        IN  /\ IndexDifference = 0 => ret.doc = same
            /\ IndexDifference = 1 => ret.doc = same + 1000
            /\ IndexDifference > 1 => ret.doc = same + 2 * LogTable[IndexDifference] + 1000

C20_Witness ==
    /\ NonIdentityCall
    /\ args.e1.attribs = <<>>
    /\ args.e2 = El("a", 0, <<>>)
    /\ args.e1i = 1
    /\ args.e2i = 0
    /\ ret.doc = 6000

(***************************************************************************)
(* C21: semantic attributes and the score                                  *)
(***************************************************************************)
\* the element without the attributes that count as semantic on it: the seven
\* names and value when the element's type is button or submit
SemanticFree(e) ==
    [e EXCEPT !.attribs = SelectSeq(@, LAMBDA a : ~IsSemantic(a.name, e))]

\* C21: the default metric returns the same number for two inputs that differ
\* only in the presence or the value of semantic attributes (the seven names,
\* and value on an element of type button or submit): the number is that of
\* the two elements without their semantic attributes.
C21_SemanticExcluded ==
    MetricReturned =>
        ret.doc = defaultRawElementMetric(SemanticFree(args.e1), SemanticFree(args.e2),
                                          args.e1i, args.e2i, 1, 1)

(***************************************************************************)
(* C22: computing the distances leaves both trees alone                    *)
(***************************************************************************)
\* C22: the element filters run on a detached deep copy of e1, so when the copy
\* loop runs every element of the original tree still has all the attributes it
\* had after parsing, and the edited tree is unchanged until the copy loop
\* starts.
C22_DistancesFrame ==
    /\ pc \in {"assign", "copy"} => origDoc = original
    /\ (pc \in {"distances", "assign"} \/ (pc = "copy" /\ k = 0)) => modDoc = modified

\* the copy loop is about to start on an original whose filtered form differs
C22_Witness ==
    /\ pc = "copy"
    /\ k = 0
    /\ unMarkup(elementFilters, original) # original
    /\ origDoc = original
    /\ modDoc = modified

(***************************************************************************)
(* Instances constructed with options, and addElementFilter                *)
(***************************************************************************)
MaxFilters == 2
MaxText == 2

ConfigOptions ==
    [elementFilters : {Undefined, Supplied(<<FStripSpaces>>)},
     additionalElementFilters : {Undefined, Supplied(<<FStripSpaces>>)},
     nonexistentChildDistance :
        {Undefined, Supplied(0), Supplied(1 * 1000), Supplied(20 * 1000)}]

InitConfig ==
    /\ \E o \in ConfigOptions : InitWith(o)
    /\ other = Instance(NoOptions)

\* text: a non-breaking space is the character "nbsp"
TextChars == {" ", "\t", "\n", "\r", "x", "nbsp"}

\* all texts of at most n characters, and some longer ones with runs inside
Texts(n) ==
    UNION {[1..m -> TextChars] : m \in 0..n}
    \cup { <<"x", " ", "\t", "x">>, <<"\r", "\n", "x", "\n", "\r", "\n", "x", "\t", " ">>,
           <<"nbsp", " ", " ", "nbsp", " ">>, <<" ", "nbsp", "\t", "\t", "x">> }

\* a text as the only child, the first, the last or a middle child of <a>, and
\* as the first child of the root
TextPlaces(t) ==
    { <<El("a", 0, <<Attr(Str_class, <<"c">>), Attr(Str_title, <<" ", " ">>)>>), Txt(1, t)>>,
      <<El("a", 0, <<>>), Txt(1, t), El("em", 1, <<>>), Txt(3, <<"y", " ">>)>>,
      <<El("a", 0, <<>>), El("em", 1, <<>>), Txt(1, t)>>,
      <<El("a", 0, <<>>), El("em", 1, <<>>), Txt(1, t), El("em", 1, <<>>)>>,
      <<Txt(0, t), El("a", 0, <<>>)>> }

\* whitespaceTestOriginal and whitespaceTestExpect, a word standing for its
\* characters
whitespaceTestOriginal ==
    << El("a", 0, <<>>),
       Txt(1, <<" ", " ", "Some", " ", "of", " ", "the", " ", " ", "whitespaces",
                " ", "in", " ", "this", " ", "sentence", " ", "should", " ", "be", " ">>),
       El("em", 1, <<>>),
       Txt(3, <<"removed", " ">>),
       Txt(1, <<" ", "\n", "\t", "\t", "\t", "in", " ", "some", " ", "cases">>) >>

whitespaceTestExpect ==
    << El("a", 0, <<>>),
       Txt(1, <<"Some", " ", "of", " ", "the", " ", "whitespaces",
                " ", "in", " ", "this", " ", "sentence", " ", "should", " ", "be", " ">>),
       El("em", 1, <<>>),
       Txt(3, <<"removed">>),
       Txt(1, <<" ", "in", " ", "some", " ", "cases">>) >>

ConfigDocs ==
    UNION {TextPlaces(t) : t \in Texts(MaxText)} \cup {whitespaceTestOriginal}

ConfigPairs ==
    { <<MismatchOriginal, MismatchModified>>,
      <<Family(<<"span">>), Family(<<>>)>>,
      <<whitespaceTestOriginal, whitespaceTestExpect>> }

\* the client calls a method of the instance when no call is running
ConfigCall ==
    /\ pc = "idle"
    /\ \/ \E X \in ConfigDocs : UnMarkupCall(X)
       \/ \E in \in ConfigPairs : ReMarkupCall(in[1], in[2])
       \/ /\ Len(elementFilters) < MaxFilters
          /\ \E f \in {FStripSpaces, FDefault(DefaultPreserve)} : addElementFilter(f)

NextConfig ==
    \/ ConfigCall
    \/ ReMarkupSteps
    \/ Return

SpecConfig == InitConfig /\ [][NextConfig]_vars

PenaltyAsked ==
    IF opt.nonexistentChildDistance = Undefined THEN 10 * 1000
    ELSE opt.nonexistentChildDistance[1]

\* C24: for every number supplied as opt.nonexistentChildDistance, 0 included,
\* the penalty reMarkup uses for each unit of difference between two child
\* counts is that number; 10 is used only when the option is not supplied.
C24_SuppliedPenalty ==
    /\ nonexistentChildDistance = PenaltyAsked
    /\ MatrixComplete =>
            \A i \in OrigIndices, j \in ModIndices :
                Cell(distanceMatrix, i, j)
                    = ChildCost(i, j)
                      + CountDifference(i, j) * PenaltyAsked
                      + RawDistance(i, j)

(***************************************************************************)
(* C26: stripSpaces                                                        *)
(***************************************************************************)
\* the characters of s that are not whitespace, in order
Words(s) == SelectSeq(s, LAMBDA c : ~IsSpace(c))

\* the place in s of its j-th character that is not whitespace; 0 for j = 0 and
\* Len(s) + 1 past the last one
PlaceOf(s, j) ==
    IF j = 0 THEN 0
    ELSE IF j > Len(Words(s)) THEN Len(s) + 1
    ELSE CHOOSE i \in 1..Len(s) :
            /\ ~IsSpace(s[i])
            /\ Cardinality({m \in 1..i : ~IsSpace(s[m])}) = j

\* there is whitespace between the j-th character that is not whitespace and
\* the next one (before the first for j = 0, after the last for j = Len(Words(s)))
Gap(s, j) == PlaceOf(s, j + 1) - PlaceOf(s, j) > 1

\* the filter list without stripSpaces
OtherFilters == SelectSeq(elementFilters, LAMBDA f : f.kind # "stripSpaces")

\* node n is the first, the last child node of its parent
IsFirstChild(doc, n) == Head(ChildNodes(doc, doc[n].parent)) = n
IsLastChild(doc, n) ==
    LET cs == ChildNodes(doc, doc[n].parent) IN cs[Len(cs)] = n

\* C26: stripSpaces rewrites the text-node children only: every maximal run of
\* tab, newline, carriage return and space becomes one space, leading whitespace
\* goes when the text node is the first child node and trailing whitespace when
\* it is the last; other characters (a non-breaking space), element children
\* and attributes stay. With unMarkup, whitespaceTestOriginal becomes
\* whitespaceTestExpect.
C26_StripSpaces ==
    (UnMarkupReturned /\ FStripSpaces \in Range(elementFilters)) =>
        /\ Len(ret.doc) = Len(original)
        /\ \A n \in 1..Len(original) :
             LET in == original[n].data
                 out == ret.doc[n].data
             IN  /\ ret.doc[n].type = original[n].type
                 /\ ret.doc[n].parent = original[n].parent
                 /\ ret.doc[n].name = original[n].name
                 /\ ret.doc[n].attribs = unMarkup(OtherFilters, original)[n].attribs
                 /\ original[n].type # "text" => out = in
                 /\ original[n].type = "text" =>
                      /\ Words(out) = Words(in)
                      /\ \A i \in 1..Len(out) : IsSpace(out[i]) => out[i] = " "
                      /\ \A i \in 1..(Len(out) - 1) :
                            ~(IsSpace(out[i]) /\ IsSpace(out[i + 1]))
                      /\ \A j \in 0..Len(Words(in)) :
                            Gap(out, j) <=>
                              /\ Gap(in, j)
                              /\ ~(j = 0 /\ IsFirstChild(original, n))
                              /\ ~(j = Len(Words(in)) /\ IsLastChild(original, n))
        /\ original = whitespaceTestOriginal => ret.doc = whitespaceTestExpect

\* the whitespace test of the repository
C26_Witness ==
    /\ UnMarkupReturned
    /\ elementFilters = <<FDefault(DefaultPreserve), FStripSpaces>>
    /\ original = whitespaceTestOriginal
    /\ ret.doc = whitespaceTestExpect

(***************************************************************************)
(* C25: two reMarkup calls with their steps interleaved                    *)
(***************************************************************************)
TwoCallOptions ==
    {NoOptions, [NoOptions EXCEPT !.nonexistentChildDistance = Supplied(1 * 1000)]}

\* two instances, equal or differently configured, with no call running
InitTwoCalls ==
    /\ InitWith(NoOptions)
    /\ \E o \in TwoCallOptions : other = Instance(o)

TwoCallPairs ==
    { <<MismatchOriginal, MismatchModified>>,
      <<MismatchModified, MismatchOriginal>>,
      <<Family(<<"em">>), Family(<<"span">>)>>,
      <<Family(<<"span", "em">>), Family(<<"em", "span">>)>> }

TwoCallsCall ==
    /\ pc = "idle"
    /\ \E in \in TwoCallPairs : ReMarkupCall(in[1], in[2])

NextTwoCalls ==
    \/ TwoCallsCall
    \/ ReMarkupSteps
    \/ Return
    \/ Interleave

SpecTwoCalls == InitTwoCalls /\ [][NextTwoCalls]_vars

\* modified after the first n copyAttributes calls along the assignment
RECURSIVE CopiesApplied(_, _, _, _)
CopiesApplied(o, m, assignment, n) ==
    IF n = 0 THEN m
    ELSE LET before == CopiesApplied(o, m, assignment, n - 1)
             e1 == Elements(o)[assignment[n][1] + 1]
             e2 == Elements(m)[assignment[n][2] + 1]
         IN  [before EXCEPT ![e2].attribs =
                copyAttributes(o[e1].attribs, @, semanticAttributes)]

\* the call c is where a call on its own arguments is when no other call runs
AsIfAlone(c) ==
    /\ c.pc \in {"distances", "assign", "copy"} \/ (c.pc = "returned" /\ c.ret.kind = "html")
        => c.origDoc = c.original
    /\ c.pc = "distances" => c.distanceMatrix = <<>> /\ c.modDoc = c.modified
    /\ c.pc \in {"assign", "copy"} \/ (c.pc = "returned" /\ c.ret.kind = "html") =>
            c.distanceMatrix = TopLoops(c.elementFilters, c.nonexistentChildDistance,
                                        c.original, c.modified, <<>>, 1)
    /\ c.pc = "assign" => c.modDoc = c.modified
    /\ c.pc = "copy" \/ (c.pc = "returned" /\ c.ret.kind = "html") =>
            /\ c.indices \in Munkres(MatrixRows(c.distanceMatrix,
                                                Len(Elements(c.original)),
                                                Len(Elements(c.modified))))
            /\ c.modDoc = CopiesApplied(c.original, c.modified, c.indices, c.k)
    /\ c.pc = "returned" /\ c.ret.kind = "html" =>
            /\ c.k = Len(c.indices)
            /\ c.ret.doc = c.modDoc

\* C25: two reMarkup calls, on one instance or on two, each use their own
\* parsed trees and their own distance matrix: whatever the order in which
\* their steps are taken, each call is at every step where it would be had the
\* other call not happened, and so is its result.
C25_IndependentCalls ==
    /\ AsIfAlone(ThisCall)
    /\ AsIfAlone(other)

\* one call has filled its matrix and the other, on other arguments and with
\* another penalty, has finished its copy loop
C25_Witness ==
    /\ pc = "assign"
    /\ other.pc = "returned"
    /\ other.ret.kind = "html"
    /\ other.original # original
    /\ other.nonexistentChildDistance # nonexistentChildDistance
    /\ other.distanceMatrix # distanceMatrix

(***************************************************************************)
(* C27: unMarkup applied twice                                             *)
(***************************************************************************)
\* C27: with the default options unMarkup(unMarkup(X)) = unMarkup(X) for every
\* fragment X; an attribute the first application keeps, such as value on an
\* input of type button, is kept by the second.
C27_Idempotent ==
    UnMarkupReturned => unMarkup(elementFilters, ret.doc) = ret.doc

(***************************************************************************)
(* C28: the number of matched pairs                                        *)
(***************************************************************************)
\* C28: when both fragments have at least one element the copy loop runs for
\* exactly min(|O|, |M|) pairs, each original and each edited element in at
\* most one of them, whatever the costs are; so when the edited fragment has
\* no more elements than the original, every edited element receives the
\* attributes of some original element.
C28_PairCount ==
    ReMarkupMatched =>
        LET nO == Len(Elements(original))
            nM == Len(Elements(modified))
        IN  /\ Len(copied) = Min2(nO, nM)
            /\ copied = indices
            /\ \A a, b \in 1..Len(copied) :
                    a # b => copied[a][1] # copied[b][1] /\ copied[a][2] # copied[b][2]
            /\ \A n \in 1..Len(copied) :
                    copied[n][1] \in 0..(nO - 1) /\ copied[n][2] \in 0..(nM - 1)
            /\ nM <= nO => Unmatched = {}

\* three original and two edited elements: two pairs are copied, one of them
\* at a cost that holds the penalty for a missing child
C28_Witness ==
    /\ ReMarkupMatched
    /\ Len(Elements(original)) = 3
    /\ Len(Elements(modified)) = 2
    /\ Len(copied) = 2
    /\ \E n \in 1..Len(copied) :
            Cell(distanceMatrix, copied[n][1], copied[n][2]) >= nonexistentChildDistance

(***************************************************************************)
(* C29: the index assertions                                               *)
(***************************************************************************)
\* C29: in every call of computeElementDistance e1 is a member of the flattened
\* original list and e2 of the flattened edited list, so the two assertions
\* never fail, both indices are valid and the row distanceMatrix[e1i] exists.
C29_AssertionsHold ==
    /\ ret.kind # "AssertionError"
    /\ ~Threw(distanceMatrix)
    /\ MatrixComplete =>
            /\ \A n \in 1..Len(distanceMatrix) :
                    /\ distanceMatrix[n].e1i \in OrigIndices
                    /\ distanceMatrix[n].e2i \in ModIndices
            /\ \A i \in OrigIndices, j \in ModIndices : Known(distanceMatrix, i, j)

\* a nested call has run for children of an original element that also has a
\* text node among its child nodes
C29_Witness ==
    /\ ReMarkupMatched
    /\ \E n \in 1..Len(distanceMatrix) : distanceMatrix[n].depth = 2
    /\ \E t \in 1..Len(original) :
            /\ original[t].type = "text"
            /\ original[t].parent # 0
            /\ Len(Children(original, original[t].parent)) > 0

(***************************************************************************)
(* C30: reMarkup terminates                                                *)
(***************************************************************************)
\* chains of three nested elements, and one with a sibling below
DeepOriginal ==
    << El("div", 0, <<>>), El("p", 1, <<>>), El("em", 2, <<Attr(Str_class, <<"c">>)>>),
       Txt(3, <<"t">>), El("span", 2, <<>>) >>

DeepModified ==
    << El("div", 0, <<>>), El("p", 1, <<>>), El("em", 2, <<>>), Txt(3, <<"u">>) >>

TerminationInputs ==
    ScenarioInputs
    \cup { <<DeepOriginal, DeepModified>>, <<DeepModified, DeepOriginal>>,
           <<DeepOriginal, MismatchModified>>, <<DeepOriginal, <<Txt(0, <<"t">>)>> >> }

TerminationCall ==
    /\ pc = "idle"
    /\ \E in \in TerminationInputs : ReMarkupCall(in[1], in[2])

NextTermination ==
    \/ TerminationCall
    \/ ReMarkupSteps
    \/ Return

\* the step that ends the double loop over the two element lists, told by what
\* it may change: every ComputeDistances step is one. Whether it is enabled is
\* decided without computing the matrix.
DistancesLeft ==
    /\ pc = "distances"
    /\ pc' \in {"assign", "returned"}
    /\ distanceMatrix' = <<>> \/ Len(distanceMatrix') > 0
    /\ ret' = ret \/ ret'.op = "reMarkup"
    /\ UNCHANGED <<other, opt, elementFilters, nonexistentChildDistance, original,
                   modified, origDoc, modDoc, indices, k, copied, args>>

\* the step that takes the result of m.compute, told in the same way: every
\* Assign step is one
AssignmentTaken ==
    /\ pc = "assign"
    /\ pc' = "copy"
    /\ indices' = <<>> \/ Len(indices') > 0
    /\ k' = 0
    /\ UNCHANGED <<other, opt, elementFilters, nonexistentChildDistance, original,
                   modified, origDoc, modDoc, distanceMatrix, copied, args, ret>>

\* reMarkup is synchronous: once called, its steps are taken until it returns
SpecTermination ==
    /\ Init
    /\ [][NextTermination]_vars
    /\ WF_vars(DistancesLeft)
    /\ WF_vars(AssignmentTaken)
    /\ WF_vars(CopyStep)
    /\ WF_vars(ReMarkupReturn)

\* the number of elements from the element node n up to the root, n included
RECURSIVE Level(_, _)
Level(doc, n) == IF doc[n].parent = 0 THEN 1 ELSE 1 + Level(doc, doc[n].parent)

\* the height of a fragment: the longest chain of nested elements
Height(doc) ==
    LET es == Elements(doc)
    IN  CHOOSE h \in 0..Len(doc) :
            /\ \A i \in 1..Len(es) : Level(doc, es[i]) <= h
            /\ h = 0 \/ \E i \in 1..Len(es) : Level(doc, es[i]) = h

ReMarkupRunning == pc \in {"distances", "assign", "copy"}

\* the calls of computeElementDistance are nested at most as deep as the lower
\* of the two trees, and its body has run at most |O| * |M| times
BoundedRecursion ==
    ReMarkupRunning \/ ReMarkupReturned =>
        /\ Len(distanceMatrix) <= Len(Elements(original)) * Len(Elements(modified))
        /\ \A n \in 1..Len(distanceMatrix) :
                /\ distanceMatrix[n].depth <= Min2(Height(original), Height(modified))
                /\ distanceMatrix[n].depth
                     <= Min2(Level(original, Elements(original)[distanceMatrix[n].e1i + 1]),
                             Level(modified, Elements(modified)[distanceMatrix[n].e2i + 1]))

ReturnsString == ReMarkupReturned => ret.kind \in {"html", "verbatim"}

\* a running call can take its next step: the solver has an assignment to
\* return and the copy loop counter is within the assignment
StepPossible ==
    /\ pc = "assign" =>
            Munkres(MatrixRows(distanceMatrix, Len(Elements(origDoc)),
                               Len(Elements(modDoc)))) # {}
    /\ pc = "copy" => k <= Len(indices)

\* C30: for finite fragments reMarkup terminates and returns a string; every
\* nested call of computeElementDistance is on a pair of children of the
\* current pair, so the calls are nested at most as deep as the smaller of the
\* two tree heights, and the body after the memo check runs at most
\* |O| * |M| times.
C30_Terminates ==
    /\ []BoundedRecursion
    /\ []ReturnsString
    /\ []StepPossible
    /\ (ReMarkupRunning ~> ReMarkupReturned)

\* a call on two fragments of height 3 has returned, its deepest calls nested
\* three deep
C30_Witness ==
    /\ ReMarkupMatched
    /\ original = DeepOriginal
    /\ modified = DeepModified
    /\ \E n \in 1..Len(distanceMatrix) : distanceMatrix[n].depth = 3
    /\ Len(distanceMatrix) = 4 * 3

====
